---- MODULE Spec2Model ----
(***************************************************************************)
(* Turn-based battle engine of TCToPyRebuild (core/combat.py,              *)
(* core/effects.py, core/entities.py, core/items.py, core/loot.py).        *)
(*                                                                         *)
(* Numbers the code keeps as floats are kept as exact tenths: a field      *)
(* whose name ends in 10 holds ten times the value of the code (scale 0.2  *)
(* is 2, chance 0.5 is 5, lifesteal power 0.5 is 5).  int() is truncation  *)
(* toward zero.  The text of the battle log is not modelled; the steps a   *)
(* call runs are recorded in order as tags in call.steps.                  *)
(***************************************************************************)
EXTENDS Integers, Sequences, FiniteSets, TLC

\* ------------------------------------------------------------------ bounds
\* the last turn_index a call is made on
MaxTurn == 6
\* the calls made on a battle state after it has returned a result
MaxLateCalls == 1

\* the highest level gain_exp is called at
MaxLevel == 5

\* values rng.random() is drawn from, in tenths (0.0 and 0.5)
RandVals == {0, 5}

\* ------------------------------------------------------------------ helpers
Max2(a, b) == IF a >= b THEN a ELSE b
Min2(a, b) == IF a <= b THEN a ELSE b

\* int(n / d) for d > 0: truncation toward zero
TruncDiv(n, d) == IF n >= 0 THEN n \div d ELSE 0 - ((0 - n) \div d)

\* ------------------------------------------------------------------ Stats
StatKeys == {"attack", "magic", "defense", "magic_resist", "max_hp"}

Stats(a, m, d, r, h) ==
    [attack |-> a, magic |-> m, defense |-> d, magic_resist |-> r, max_hp |-> h]

ZeroStats == Stats(0, 0, 0, 0, 0)

\* Stats.with_bonus: field-wise addition (a missing key of the bonus is 0)
with_bonus(self, bonus) ==
    Stats(self.attack + bonus.attack,
          self.magic + bonus.magic,
          self.defense + bonus.defense,
          self.magic_resist + bonus.magic_resist,
          self.max_hp + bonus.max_hp)

\* ------------------------------------------------------------------ effects
EffectInstance(kind, duration, power10, stats_delta) ==
    [kind |-> kind, duration |-> duration, power10 |-> power10,
     stats_delta |-> stats_delta]

\* an effect spec of a skill, an item special or a gimmick
EffectSpec(type, target, chance10, duration, power10, stats) ==
    [type |-> type, target |-> target, chance10 |-> chance10,
     duration |-> duration, power10 |-> power10, stats |-> stats]

\* effects.has_effect
has_effect(effs, effect_kind) ==
    \E i \in 1..Len(effs) : effs[i].kind = effect_kind /\ effs[i].duration > 0

\* Actor._effect_bonus: sum of the deltas of the active buff/debuff instances
RECURSIVE EffectBonusFrom(_, _)
EffectBonusFrom(effs, i) ==
    IF i > Len(effs) THEN ZeroStats
    ELSE LET rest == EffectBonusFrom(effs, i + 1)
             eff == effs[i]
         IN  IF eff.duration <= 0 THEN rest
             ELSE IF eff.kind \notin {"buff_stats", "debuff_stats"} THEN rest
             ELSE with_bonus(rest, eff.stats_delta)

effect_bonus(effs) == EffectBonusFrom(effs, 1)

\* ------------------------------------------------------------------ catalog
\* skills.json as the engine reads it; "__basic__" is the entry that
\* DataStore._ensure_basic_skill forces into the catalog
SkillDef(bp, bm, sa10, sm10, effs) ==
    [base_physical |-> bp, base_magic |-> bm, scale_attack10 |-> sa10,
     scale_magic10 |-> sm10, apply_effect |-> effs]

BasicSkill == SkillDef(10, 0, 2, 0, <<>>)

SkillIds == {"__basic__", "stun_bash", "bleed_cut", "drain", "warcry",
             "bite", "bash", "curse"}

Skills ==
    [id \in SkillIds |->
        CASE id = "__basic__" -> BasicSkill
          [] id = "stun_bash" ->
                SkillDef(3, 0, 0, 0,
                    <<EffectSpec("stun", "enemy", 10, 2, 0, ZeroStats)>>)
          [] id = "bleed_cut" ->
                SkillDef(2, 0, 0, 0,
                    <<EffectSpec("bleed", "enemy", 10, 2, 50, ZeroStats)>>)
          [] id = "drain" ->
                SkillDef(0, 7, 0, 5,
                    <<EffectSpec("lifesteal", "self", 10, 0, 2, ZeroStats),
                      EffectSpec("lifesteal", "self", 10, 0, 3, ZeroStats)>>)
          [] id = "warcry" ->
                SkillDef(0, 0, 0, 0,
                    <<EffectSpec("buff_stats", "self", 10, 2, 0,
                                 Stats(5, 0, 0, 0, 5)),
                      EffectSpec("heal", "self", 10, 0, 80, ZeroStats)>>)
          [] id = "bite" ->
                SkillDef(4, 0, 0, 0,
                    <<EffectSpec("bleed", "enemy", 3, 2, 40, ZeroStats)>>)
          [] id = "bash" ->
                SkillDef(2, 0, 0, 0,
                    <<EffectSpec("stun", "enemy", 10, 1, 0, ZeroStats)>>)
          [] OTHER ->
                SkillDef(0, 0, 0, 0,
                    <<EffectSpec("debuff_stats", "enemy", 10, 2, 0,
                                 Stats(0, 0, 0, 0, 0 - 4)),
                      EffectSpec("confuse", "enemy", 10, 1, 0, ZeroStats)>>)]

\* a skill id no catalog entry exists for
UnknownSkill == "no_such_skill"

\* items.json: type, slot, stats, special, use_effect
ItemDef(type, slot, stats, special, use_effect) ==
    [type |-> type, slot |-> slot, stats |-> stats, special |-> special,
     use_effect |-> use_effect]

NoSpecial == [type |-> "none", stat |-> "none", mult10 |-> 10, effect |-> "none",
              chance10 |-> 0, duration |-> 1, power10 |-> 0]
NoUse == [type |-> "none", power10 |-> 0, remove |-> {}, duration |-> 1,
          stats |-> ZeroStats]

ItemIds == {"potion_small", "antidote", "tonic", "ore", "sword", "ring", "amulet",
            "helm", "cursed_blade"}

Items ==
    [id \in ItemIds |->
        CASE id = "potion_small" ->
                ItemDef("consumable", "none", ZeroStats, NoSpecial,
                        [NoUse EXCEPT !.type = "heal", !.power10 = 100])
          [] id = "antidote" ->
                ItemDef("consumable", "none", ZeroStats, NoSpecial,
                        [NoUse EXCEPT !.type = "cleanse", !.remove = {"bleed", "stun"}])
          [] id = "tonic" ->
                ItemDef("consumable", "none", ZeroStats, NoSpecial,
                        [NoUse EXCEPT !.type = "buff_stats", !.duration = 2,
                                      !.stats = Stats(0, 0, 2, 0, 0 - 3)])
          [] id = "ore" ->
                ItemDef("material", "none", ZeroStats, NoSpecial, NoUse)
          [] id = "sword" ->
                ItemDef("equipment", "weapon", Stats(5, 0, 0, 0, 0), NoSpecial, NoUse)
          [] id = "ring" ->
                ItemDef("equipment", "accessory", Stats(0, 0, 0, 0, 2),
                        [NoSpecial EXCEPT !.type = "on_hit", !.effect = "bleed",
                                          !.chance10 = 5, !.duration = 1,
                                          !.power10 = 20],
                        NoUse)
          [] id = "helm" ->
                ItemDef("equipment", "armor", Stats(0, 0, 1, 0, 2),
                        [NoSpecial EXCEPT !.type = "stat_multiplier",
                                          !.stat = "max_hp", !.mult10 = 20],
                        NoUse)
          [] id = "cursed_blade" ->
                ItemDef("equipment", "weapon", Stats(3, 0, 0, 0, 0),
                        [NoSpecial EXCEPT !.type = "stat_multiplier",
                                          !.stat = "attack", !.mult10 = 0],
                        NoUse)
          [] OTHER ->
                ItemDef("equipment", "accessory", Stats(0, 0, 0, 0, 0),
                        [NoSpecial EXCEPT !.type = "stat_multiplier",
                                          !.stat = "max_hp", !.mult10 = 15],
                        NoUse)]

\* an item id no catalog entry exists for
UnknownItem == "no_such_item"

Slots == <<"weapon", "armor", "accessory">>
NoItem == "none"

\* players.json: base_stats and the skill list of each profile
PlayerIds == {"char_0", "char_1"}

Players ==
    [id \in PlayerIds |->
        IF id = "char_0"
        THEN [base_stats |-> Stats(15, 0, 5, 0, 20),
              skills |-> <<"__basic__", "stun_bash", "bleed_cut">>]
        ELSE [base_stats |-> Stats(5, 12, 5, 0, 18),
              skills |-> <<"drain", "warcry">>]]

\* a boss gimmick: trigger, n or ratio, once, and the effect of its action
Gimmick(trigger, n, ratio10, once, target, effect, duration, power10) ==
    [trigger |-> trigger, n |-> n, ratio10 |-> ratio10, once |-> once,
     action_type |-> "apply_effect", target |-> target, effect |-> effect,
     duration |-> duration, power10 |-> power10]

\* monsters.json / bosses.json
EnemyIds == {"slime", "bat", "golem"}

Monsters ==
    [id \in EnemyIds |->
        CASE id = "slime" ->
                [stats |-> Stats(15, 0, 5, 0, 30), ai |-> "basic",
                 skills |-> <<"__basic__">>, gimmicks |-> <<>>,
                 drop_table |-> "slime_drops"]
          [] id = "bat" ->
                [stats |-> Stats(0, 0, 0, 0, 12), ai |-> "basic",
                 skills |-> <<"bite", "curse">>, gimmicks |-> <<>>,
                 drop_table |-> "none"]
          [] OTHER ->
                [stats |-> Stats(0, 0, 0, 0, 24), ai |-> "boss",
                 skills |-> <<"bash">>,
                 gimmicks |->
                    <<Gimmick("every_n_turns", 3, 0, FALSE, "player", "bleed", 1, 30),
                      Gimmick("hp_below", 0, 5, TRUE, "player", "stun", 2, 0)>>,
                 drop_table |-> "golem_drops"]]

\* items.json drop_tables: item, chance, min, max
DropEntry(item, chance10, min, max) ==
    [item |-> item, chance10 |-> chance10, min |-> min, max |-> max]

DropTableIds == {"slime_drops", "golem_drops"}

DropTables ==
    [id \in DropTableIds |->
        IF id = "slime_drops"
        THEN <<DropEntry("ore", 10, 2, 2)>>
        ELSE <<DropEntry("potion_small", 5, 1, 2), DropEntry("ore", 0, 1, 1)>>]

\* ------------------------------------------------------------------ state
VARIABLES
    player_id,       \* Player.player_id: the profile the player was built from
    equipment,       \* Player.equipment: slot -> item id or NoItem
    allocated_stats, \* Player.allocated_stats
    inventory,       \* Player.inventory: item id -> count (a dict: held keys only)
    player_hp,       \* state.player.hp
    player_effects,  \* state.player.effects
    enemy_id,        \* Enemy.enemy_id: the definition the enemy was built from
    enemy_hp,        \* state.enemy.hp
    enemy_effects,   \* state.enemy.effects
    turn,            \* BattleState.turn
    turn_index,      \* BattleState.turn_index
    expected_exp,    \* BattleState.expected_exp
    drop_table_id,   \* BattleState.drop_table_id
    gimmick_used,    \* BattleState.gimmick_used
    call,            \* what the last player-action call did and returned
    hist,            \* what has happened on this battle state so far
    level,           \* Player.level
    exp,             \* Player.exp
    stat_points,     \* Player.stat_points
    args,            \* the arguments of the function call under way
    ret,             \* what that call returned (NoRet until it returns)
    dungeon_progress, \* GameController.dungeon_progress
    progress         \* GameController.progress["players"]: player id -> saved entry

vars == <<player_id, equipment, allocated_stats, inventory, player_hp,
          player_effects, enemy_id, enemy_hp, enemy_effects, turn, turn_index,
          expected_exp, drop_table_id, gimmick_used, call, hist,
          level, exp, stat_points, args, ret, dungeon_progress, progress>>

saved_vars == <<dungeon_progress, progress>>

\* DungeonProgress(): zone "1" with its stage 1
NewDungeonProgress ==
    [unlocked_zones |-> <<"1">>, unlocked_stage_by_zone |-> ("1" :> 1)]

\* a controller started without a save file
FreshProgress ==
    /\ dungeon_progress = NewDungeonProgress
    /\ progress = <<>>

\* no function call is under way
NoArgs == [fn |-> "none"]
NoRet == [done |-> FALSE]

\* the call returned v
Returned(v) == [done |-> TRUE, value |-> v]

\* dict.get(item_id, 0)
InvGet(inv, item_id) == IF item_id \in DOMAIN inv THEN inv[item_id] ELSE 0

\* ------------------------------------------------------------------ total stats
\* the item equipped in a slot; an empty slot or an id get_item does not
\* know contributes nothing
NoItemDef == ItemDef("none", "none", ZeroStats, NoSpecial, NoUse)

get_item(item_id) ==
    IF item_id = NoItem \/ item_id \notin ItemIds THEN NoItemDef ELSE Items[item_id]

RECURSIVE EquipBonusFrom(_, _)
\* Player.total_stats lines 138-146: the stats of the equipped items
EquipBonusFrom(equip, i) ==
    IF i > Len(Slots) THEN ZeroStats
    ELSE with_bonus(EquipBonusFrom(equip, i + 1), get_item(equip[Slots[i]]).stats)

\* one item's contribution to the multiplier of a stat
ApplyMultiplier(rest, special, key) ==
    IF special.type = "stat_multiplier" /\ special.stat = key /\ special.mult10 > 0
    THEN [num |-> rest.num * special.mult10, den |-> rest.den * 10]
    ELSE rest

RECURSIVE MultiplierFrom(_, _, _)
\* Player.total_stats lines 149-161: the multiplier of one stat as a fraction
MultiplierFrom(equip, key, i) ==
    IF i > Len(Slots) THEN [num |-> 1, den |-> 1]
    ELSE ApplyMultiplier(MultiplierFrom(equip, key, i + 1),
                         get_item(equip[Slots[i]]).special, key)

Scaled(v, m) == TruncDiv(v * m.num, m.den)

\* Player.total_stats lines 163-175: int(stat * multiplier) of every stat
ScaleAll(total, equip) ==
    [key \in StatKeys |-> Scaled(total[key], MultiplierFrom(equip, key, 1))]

\* a total_stats that scales the base stats and adds the bonuses afterwards
PlayerTotalStats_scaled_base(pid, equip, alloc, effs) ==
    with_bonus(ScaleAll(Players[pid].base_stats, equip),
               with_bonus(with_bonus(alloc, EquipBonusFrom(equip, 1)),
                          effect_bonus(effs)))

\* Player.total_stats: additive bonuses first, then the multipliers
PlayerTotalStats(pid, equip, alloc, effs) ==
    ScaleAll(with_bonus(Players[pid].base_stats,
                        with_bonus(with_bonus(alloc, EquipBonusFrom(equip, 1)),
                                   effect_bonus(effs))),
             equip)

\* Actor.get_total_stats: base stats plus the effect bonus
EnemyTotalStats(eid, effs) == with_bonus(Monsters[eid].stats, effect_bonus(effs))

\* apply_damage without the floor at 0
apply_damage_unfloored(hp, amount) == hp - amount

\* Actor.apply_damage
apply_damage(hp, amount) == Max2(0, hp - amount)

\* ------------------------------------------------------------------ battle record
\* The operators below work on a record s holding the fields of BattleState
\* that a call can change, the record of the running call and the history.
Other(who) == IF who = "player" THEN "enemy" ELSE "player"

Hp(s, who) == IF who = "player" THEN s.php ELSE s.ehp
Effs(s, who) == IF who = "player" THEN s.peff ELSE s.eeff
SetHp(s, who, v) == IF who = "player" THEN [s EXCEPT !.php = v] ELSE [s EXCEPT !.ehp = v]
SetEffs(s, who, v) == IF who = "player" THEN [s EXCEPT !.peff = v] ELSE [s EXCEPT !.eeff = v]

\* logs.append(...) of a step, kept as a tag
Step(s, tag) == [s EXCEPT !.steps = Append(@, tag)]

\* get_total_stats of an actor of the battle
TotalStats(s, who) ==
    IF who = "player"
    THEN PlayerTotalStats(player_id, equipment, allocated_stats, s.peff)
    ELSE EnemyTotalStats(enemy_id, s.eeff)

\* effects._target_max_hp
target_max_hp(s, who) == TotalStats(s, who).max_hp

\* ------------------------------------------------------------------ stun audit
NoAudit == [d |-> 0, skips |-> 0, st |-> "none"]

\* a stun of the given duration is appended to who
StunApplied(s, who, duration) ==
    LET cur == s.stun_audit[who] IN
    IF has_effect(Effs(s, who), "stun") \/ cur.st = "open"
    THEN [s EXCEPT !.stun_audit[who] = [d |-> 0, skips |-> 0, st |-> "void"]]
    ELSE IF duration >= 1
    THEN [s EXCEPT !.stun_audit[who] = [d |-> duration, skips |-> 0, st |-> "open"]]
    ELSE s

\* who reaches its action step and can_act returned can
ActionStep(s, who, can) ==
    LET cur == s.stun_audit[who] IN
    IF cur.st # "open" THEN s
    ELSE IF can THEN [s EXCEPT !.stun_audit[who].st = "done"]
    ELSE [s EXCEPT !.stun_audit[who].skips = @ + 1]

\* ------------------------------------------------------------------ effects.py
\* an apply_effect that lets the new instance take the place of those of its
\* kind
AppendInstance_replacing(s, who, spec) ==
    LET inst == EffectInstance(spec.type, spec.duration, spec.power10, spec.stats)
        s1 == IF spec.type = "stun" THEN StunApplied(s, who, spec.duration) ELSE s
    IN  Step(SetEffs(s1, who,
                     Append(SelectSeq(Effs(s1, who), LAMBDA e : e.kind # spec.type),
                            inst)),
             spec.type)

\* the instance apply_effect appends for a spec of a recognised timed kind
AppendInstance(s, who, spec) ==
    LET inst == EffectInstance(spec.type, spec.duration, spec.power10, spec.stats)
        s1 == IF spec.type = "stun" THEN StunApplied(s, who, spec.duration) ELSE s
    IN  Step(SetEffs(s1, who, Append(Effs(s1, who), inst)), spec.type)

\* an apply_effect that logs an unknown kind and keeps the instance it built
ApplyGated_keeps_unknown(s, who, spec) ==
    IF spec.type = "heal"
    THEN Step(SetHp(s, who, Min2(target_max_hp(s, who),
                                 Hp(s, who) + TruncDiv(spec.power10, 10))),
              "heal")
    ELSE IF spec.type = "lifesteal" THEN s
    ELSE IF spec.type \in {"buff_stats", "debuff_stats", "bleed", "stun"}
    THEN AppendInstance(s, who, spec)
    ELSE Step(SetEffs(s, who,
                      Append(Effs(s, who),
                             EffectInstance(spec.type, spec.duration, spec.power10,
                                            spec.stats))),
              "unknown_effect")

\* apply_effect after the chance gate
ApplyGated(s, who, spec) ==
    IF spec.type = "heal"
    THEN Step(SetHp(s, who, Min2(target_max_hp(s, who),
                                 Hp(s, who) + TruncDiv(spec.power10, 10))),
              "heal")
    ELSE IF spec.type = "lifesteal" THEN s
    ELSE IF spec.type \in {"buff_stats", "debuff_stats", "bleed", "stun"}
    THEN AppendInstance(s, who, spec)
    ELSE Step(s, "unknown_effect")

\* roll_chance: rng.random() <= chance
roll_chance(chance10, r) == r <= chance10

\* apply_effect: the set of outcomes over the values of rng.random()
apply_effect(s, who, spec) ==
    {IF spec.chance10 >= 10 \/ roll_chance(spec.chance10, r)
     THEN ApplyGated(s, who, spec)
     ELSE Step(s, "effect_failed")
     : r \in IF spec.chance10 < 10 THEN RandVals ELSE {0}}

\* a tick in which a bleed in its last turn is dropped without its damage
BleedHit_unless_expiring(effect, hp) ==
    IF effect.kind = "bleed" /\ effect.duration > 1
    THEN Max2(0, hp - TruncDiv(effect.power10, 10))
    ELSE hp

\* lines 130-132: the damage of one effect in the tick, before its duration
\* is touched
BleedHit(effect, hp) ==
    IF effect.kind = "bleed"
    THEN Max2(0, hp - TruncDiv(effect.power10, 10))
    ELSE hp

RECURSIVE TickFrom(_, _, _)
\* the loop of tick_end_of_turn from effect i on: hp and the remaining effects
TickFrom(effs, i, hp) ==
    IF i > Len(effs) THEN [hp |-> hp, remaining |-> <<>>]
    ELSE LET effect == effs[i]
             hp1 == BleedHit(effect, hp)
             ticked == [effect EXCEPT !.duration = @ - 1]
             rest == TickFrom(effs, i + 1, hp1)
         IN  IF ticked.duration > 0
             THEN [rest EXCEPT !.remaining = <<ticked>> \o @]
             ELSE rest

\* tick_end_of_turn
tick_end_of_turn(s, who) ==
    LET r == TickFrom(Effs(s, who), 1, Hp(s, who))
    IN  Step(SetEffs(SetHp(s, who, r.hp), who, r.remaining),
             IF who = "player" THEN "tick_player" ELSE "tick_enemy")

\* can_act
can_act(s, who) == ~has_effect(Effs(s, who), "stun")

\* ------------------------------------------------------------------ loot.py
\* values rng.random() is drawn from when a drop entry is rolled, in tenths
DropRandVals == {0, 5, 9}

\* a quantity range that starts at 0
QtyRange_from_zero(entry) == 0..Max2(entry.min, entry.max)

\* line 18: the quantities rng.randint(min(qty_min, qty_max), max(...)) returns
QtyRange(entry) == Min2(entry.min, entry.max)..Max2(entry.min, entry.max)

RECURSIVE RollFrom(_, _)
\* roll_drop from entry i on: every list of (item, qty) the rng can produce
RollFrom(table, i) ==
    IF i > Len(table) THEN {<<>>}
    ELSE UNION {IF r <= table[i].chance10 /\ table[i].item # NoItem
                THEN {<<[item |-> table[i].item, qty |-> q]>> \o rest :
                         q \in QtyRange(table[i]), rest \in RollFrom(table, i + 1)}
                ELSE RollFrom(table, i + 1)
                : r \in DropRandVals}

\* roll_drop
roll_drop(table_name) ==
    IF table_name \in DropTableIds THEN RollFrom(DropTables[table_name], 1)
    ELSE {<<>>}

\* ------------------------------------------------------------------ combat.py
\* a finish that leaves the effects in place
clear_all_battle_effects_kept(effs) == effs

\* effects.clear_all_battle_effects
clear_all_battle_effects(effs) == <<>>

\* a result that carries the exp reward whoever won
ResultExp_always(winner, expected) == expected

\* line 125: exp=state.expected_exp if winner == "player" else 0
ResultExp(winner, expected) == IF winner = "player" THEN expected ELSE 0

\* BattleEngine._finish
Finish(s, winner) ==
    LET rolled == winner = "player" /\ s.drop_table_id # "none"
        rolls == IF rolled THEN roll_drop(s.drop_table_id) ELSE {<<>>}
        peff == clear_all_battle_effects(s.peff)
        eeff == clear_all_battle_effects(s.eeff)
        max_hp == PlayerTotalStats(player_id, equipment, allocated_stats, peff).max_hp
    IN  {[s EXCEPT !.winner = winner,
                   !.exp = ResultExp(winner, s.expected_exp),
                   !.drops = d,
                   !.fin_php = s.php,
                   !.fin_ehp = s.ehp,
                   !.steps = Append(@, "finish"),
                   !.n_results = @ + 1,
                   !.n_rolls = @ + (IF rolled THEN 1 ELSE 0),
                   !.stun_audit = [w \in {"player", "enemy"} |-> NoAudit],
                   !.peff = peff,
                   !.eeff = eeff,
                   !.php = max_hp] : d \in rolls}

RECURSIVE ApplySpecs(_, _, _, _)
\* the loop over the skill's effect specs
ApplySpecs(S, attacker, specs, i) ==
    IF i > Len(specs) THEN S
    ELSE LET eff == specs[i]
             who == IF eff.target = "self" THEN attacker ELSE Other(attacker)
             One(x) == IF eff.type = "lifesteal"
                       THEN {[x EXCEPT !.lifesteal10 = @ + eff.power10]}
                       ELSE apply_effect(x, who, eff)
         IN  ApplySpecs(UNION {One(x) : x \in S}, attacker, specs, i + 1)

\* lines 210-221: the proc of an on_hit special
OnHitProc(s, attacker, special) ==
    IF special.type # "on_hit" THEN {s}
    ELSE UNION {IF roll_chance(special.chance10, r)
                THEN apply_effect(s, Other(attacker),
                         EffectSpec(special.effect, "enemy", 10, special.duration,
                                    special.power10, ZeroStats))
                ELSE {s} : r \in RandVals}

\* the on_hit accessory proc of the player
OnHit(s, attacker) ==
    IF attacker # "player" \/ equipment["accessory"] = NoItem
       \/ equipment["accessory"] \notin ItemIds
    THEN {s}
    ELSE OnHitProc(s, attacker, Items[equipment["accessory"]].special)

\* a lifesteal heal that is not held at the attacker's max_hp
Lifesteal_unclamped(s, attacker, total_damage) ==
    IF s.lifesteal10 > 0
    THEN Step(SetHp(s, attacker,
                    Hp(s, attacker) + TruncDiv(total_damage * s.lifesteal10, 10)),
              "lifesteal")
    ELSE s

\* the lifesteal heal from the damage dealt
Lifesteal(s, attacker, total_damage) ==
    IF s.lifesteal10 > 0
    THEN LET heal_amount == TruncDiv(total_damage * s.lifesteal10, 10)
         IN  Step(SetHp(s, attacker, Min2(target_max_hp(s, attacker),
                                          Hp(s, attacker) + heal_amount)),
                  "lifesteal")
    ELSE s

\* Python evaluates base + a*scale - m*scale in IEEE-754 doubles.  For the
\* bases 0..10, the scales 0.0, 0.2 and 0.5, the attacking stats 0, 1, 5, 10,
\* 12, 15, 20 and the mitigating stats -5, 0, 5, 7, 11, 100 the double is
\* the exact value except for these <<scale10, base, a, m>>, where it lies
\* just below an integer (10 + 1*0.2 - 11*0.2 is 7.999999999999999)
RoundsBelow == {<<2, 8, 1, 11>>, <<2, 9, 1, 11>>, <<2, 10, 1, 11>>}

\* a component without the clamp at 0
Component_unclamped(base, scale10, a, m) ==
    TruncDiv(base * 10 + a * scale10 - m * scale10, 10)

\* lines 167-174: int(max(0, base + a*scale - m*scale)) of one component
Component(base, scale10, a, m) ==
    TruncDiv(Max2(0, base * 10 + a * scale10 - m * scale10), 10)
        - (IF <<scale10, base, a, m>> \in RoundsBelow THEN 1 ELSE 0)

\* the damage of a skill, lines 157-175
SkillDamage(skill_data, atk_stats, def_stats) ==
    [phys_int |-> Component(skill_data.base_physical, skill_data.scale_attack10,
                            atk_stats.attack, def_stats.defense),
     magic_int |-> Component(skill_data.base_magic, skill_data.scale_magic10,
                             atk_stats.magic, def_stats.magic_resist)]

\* line 175: total_damage
TotalDamage(dmg) == dmg.phys_int + dmg.magic_int

\* what the caller of _use_skill sees of the defender's hp
Seen(x, attacker) ==
    IF attacker = "player"
    THEN [x EXCEPT !.after_player_ehp = x.ehp, !.lifesteal10 = 0]
    ELSE [x EXCEPT !.after_enemy_php = x.php, !.lifesteal10 = 0]

\* _use_skill from line 176 on: the damage is dealt, then the effect specs,
\* the on_hit proc, the lifesteal and the finish of a dead defender
ApplySkill(s, attacker, skill_data, total_damage) ==
    UNION {IF Hp(x, Other(attacker)) <= 0
           THEN Finish(Seen(x, attacker), attacker)
           ELSE {Seen(x, attacker)}
           : x \in {Lifesteal(y, attacker, total_damage)
                    : y \in UNION {OnHit(z, attacker)
                                   : z \in ApplySpecs(
                                        {[Step(SetHp(s, Other(attacker),
                                                     apply_damage(Hp(s, Other(attacker)),
                                                                  total_damage)),
                                               IF attacker = "player"
                                               THEN "player_skill" ELSE "enemy_skill")
                                          EXCEPT !.lifesteal10 = 0]},
                                        attacker, skill_data.apply_effect, 1)}}}

\* BattleEngine._use_skill
UseSkill(s, attacker, skill_id) ==
    IF skill_id \notin SkillIds THEN {Step(s, "unknown_skill")}
    ELSE ApplySkill(s, attacker, Skills[skill_id],
                    TotalDamage(SkillDamage(Skills[skill_id], TotalStats(s, attacker),
                                            TotalStats(s, Other(attacker)))))

\* a trigger test whose every_n_turns case forgets the turn index
ShouldFire_any_turn(s, gimmick) ==
    IF gimmick.trigger = "every_n_turns"
    THEN gimmick.n > 0
    ELSE IF gimmick.trigger = "hp_below"
    THEN LET base == Monsters[enemy_id].stats.max_hp
             max_hp == IF base = 0 THEN 1 ELSE base
         IN  s.ehp * 10 <= gimmick.ratio10 * max_hp
    ELSE FALSE

\* the trigger test of a gimmick, lines 244-252
ShouldFire(s, gimmick) ==
    IF gimmick.trigger = "every_n_turns"
    THEN gimmick.n > 0 /\ s.turn_index % gimmick.n = 0
    ELSE IF gimmick.trigger = "hp_below"
    THEN LET base == Monsters[enemy_id].stats.max_hp
             max_hp == IF base = 0 THEN 1 ELSE base
         IN  s.ehp * 10 <= gimmick.ratio10 * max_hp
    ELSE FALSE

\* state.gimmick_used.get(idx)
GimmickUsed(s, idx) == idx \in DOMAIN s.gimmick_used /\ s.gimmick_used[idx]

\* a gimmick loop that never records a once gimmick as used
MarkUsed_never(used, idx, once) == used

\* lines 265-266: if once: state.gimmick_used[idx] = True
MarkUsed(used, idx, once) ==
    IF once THEN [k \in DOMAIN used \cup {idx} |-> IF k = idx THEN TRUE ELSE used[k]]
    ELSE used

\* lines 253-266: a gimmick whose trigger holds fires
FireGimmick(s, idx, gimmick) ==
    {[x EXCEPT !.gimmick_used = MarkUsed(@, idx, gimmick.once),
               !.fired[idx] = @ + 1,
               !.fired_now = @ \cup {idx}]
     : x \in IF gimmick.action_type = "apply_effect"
             THEN apply_effect(s, IF gimmick.target = "player" THEN "player" ELSE "enemy",
                      EffectSpec(gimmick.effect, "none", 10, gimmick.duration,
                                 gimmick.power10, ZeroStats))
             ELSE {s}}

\* the body of the loop of _handle_gimmicks for one gimmick
RunGimmick(s, idx, gimmick) ==
    IF ~ShouldFire(s, gimmick) THEN {s}
    ELSE IF gimmick.once /\ GimmickUsed(s, idx)
    THEN {[s EXCEPT !.suppressed = @ \cup {idx}]}
    ELSE FireGimmick(s, idx, gimmick)

\* one pass of the loop of _handle_gimmicks (idx counts from 1)
GimmickStep(s, idx) == RunGimmick(s, idx, Monsters[enemy_id].gimmicks[idx])

RECURSIVE HandleGimmicksFrom(_, _)
HandleGimmicksFrom(S, idx) ==
    IF idx > Len(Monsters[enemy_id].gimmicks) THEN S
    ELSE HandleGimmicksFrom(UNION {GimmickStep(x, idx) : x \in S}, idx + 1)

\* BattleEngine._handle_gimmicks
HandleGimmicks(s) == HandleGimmicksFrom({s}, 1)

\* BattleEngine._enemy_action
EnemyAction(s) ==
    IF ~can_act(s, "enemy")
    THEN {ActionStep(Step(s, "enemy_stunned"), "enemy", FALSE)}
    ELSE LET s1 == ActionStep(Step(s, "enemy_acts"), "enemy", TRUE)
             S2 == IF Monsters[enemy_id].ai = "boss" THEN HandleGimmicks(s1) ELSE {s1}
             skills == Monsters[enemy_id].skills
             pool == IF Len(skills) > 0 THEN skills ELSE <<"__basic__">>
             S3 == UNION {UseSkill(x, "enemy", pool[i]) : x \in S2, i \in 1..Len(pool)}
         IN  UNION {IF x.winner = "none" /\ x.php <= 0 THEN Finish(x, "enemy")
                    ELSE {x} : x \in S3}

\* the two checks in the other order: the enemy first
EndWinner_enemy_first(php, ehp) ==
    IF ehp <= 0 THEN "player" ELSE IF php <= 0 THEN "enemy" ELSE "none"

\* an end of turn that does not look at the enemy
EndWinner_player_only(php, ehp) ==
    IF php <= 0 THEN "enemy" ELSE "none"

\* the two checks of _end_of_turn after the ticks: the player first
EndWinner(php, ehp) ==
    IF php <= 0 THEN "enemy" ELSE IF ehp <= 0 THEN "player" ELSE "none"

\* the two checks of _end_of_turn on the battle state t the ticks leave
EndChecks(t) ==
    IF EndWinner(t.php, t.ehp) # "none"
    THEN Finish([t EXCEPT !.tick_php = t.php, !.tick_ehp = t.ehp],
                EndWinner(t.php, t.ehp))
    ELSE {[t EXCEPT !.tick_php = t.php, !.tick_ehp = t.ehp]}

\* both actors as _end_of_turn finds them
BeforeTick(s) ==
    [s EXCEPT !.pre_tick = [php |-> s.php, ehp |-> s.ehp, peff |-> s.peff,
                            eeff |-> s.eeff, ran |-> TRUE]]

\* BattleEngine._end_of_turn
EndOfTurn(s) ==
    EndChecks(tick_end_of_turn(tick_end_of_turn(BeforeTick(s), "player"), "enemy"))

\* an _after_player_action that runs the end of turn whatever the enemy's
\* action returned
AfterPlayerAction_no_early_return(s) ==
    UNION {{[y EXCEPT !.turn = @ + 1, !.turn_index = @ + 1,
                      !.steps = Append(@, "turn_inc")] : y \in EndOfTurn(x)}
           : x \in EnemyAction(s)}

\* BattleEngine._after_player_action
AfterPlayerAction(s) ==
    UNION {IF x.winner # "none" THEN {x}
           ELSE {[y EXCEPT !.turn = @ + 1, !.turn_index = @ + 1,
                           !.steps = Append(@, "turn_inc")] : y \in EndOfTurn(x)}
           : x \in EnemyAction(s)}

\* the stunned branch of a player call: the turn is lost
PlayerStunned(s) == ActionStep(Step(s, "player_stunned"), "player", FALSE)

\* BattleEngine.player_use_skill
player_use_skill(s, skill_id) ==
    UNION {IF x.winner # "none" THEN {x}
           ELSE IF can_act(s, "player") /\ x.ehp <= 0 THEN Finish(x, "player")
           ELSE AfterPlayerAction(x)
           : x \in IF ~can_act(s, "player") THEN {PlayerStunned(s)}
                   ELSE UseSkill(ActionStep(s, "player", TRUE), "player", skill_id)}

\* BattleEngine.player_basic_attack
player_basic_attack(s) == player_use_skill(s, "__basic__")

\* ------------------------------------------------------------------ items.py
\* remove_item_from_inventory(player, item_id, 1) on the dict
remove_item_from_inventory(inv, item_id, qty) ==
    LET need == Max2(1, qty) IN
    IF InvGet(inv, item_id) < need THEN inv
    ELSE IF inv[item_id] - need <= 0
    THEN [k \in DOMAIN inv \ {item_id} |-> inv[k]]
    ELSE [inv EXCEPT ![item_id] = @ - need]

\* the effects a cleanse keeps
RECURSIVE Cleansed(_, _)
Cleansed(effs, remove) ==
    IF effs = <<>> THEN <<>>
    ELSE IF Head(effs).kind \in remove THEN Cleansed(Tail(effs), remove)
    ELSE <<Head(effs)>> \o Cleansed(Tail(effs), remove)

\* apply_consumable_in_battle lines 121-159 for a known item
UseConsumable(s, item, s1) ==
    IF item.type # "consumable" THEN {[ok |-> FALSE, s |-> s]}
    ELSE IF item.use_effect.type = "heal"
    THEN {[ok |-> TRUE,
           s |-> SetHp(s1, "player",
                       Min2(target_max_hp(s1, "player"),
                            s1.php + TruncDiv(item.use_effect.power10, 10)))]}
    ELSE IF item.use_effect.type = "cleanse"
    THEN {[ok |-> TRUE,
           s |-> [s1 EXCEPT !.peff = Cleansed(@, item.use_effect.remove)]]}
    ELSE IF item.use_effect.type = "buff_stats"
    THEN {[ok |-> TRUE,
           s |-> [x EXCEPT !.php = Min2(x.php, target_max_hp(x, "player"))]]
          : x \in apply_effect(s1, "player",
                     EffectSpec("buff_stats", "self", 10, item.use_effect.duration,
                                0, item.use_effect.stats))}
    ELSE {[ok |-> FALSE, s |-> s1]}

\* apply_consumable_in_battle: the outcomes, each with its success flag
apply_consumable_in_battle(s, item_id) ==
    IF item_id \notin ItemIds THEN {[ok |-> FALSE, s |-> s]}
    ELSE UseConsumable(s, Items[item_id], Step(s, "item_used"))

\* a use that leaves the used item in the inventory
UseItem_kept(s0, item_id) ==
    IF InvGet(s0.inv, item_id) <= 0
    THEN {Step(s0, "item_missing")}
    ELSE {IF r.ok THEN r.s ELSE Step(r.s, "item_failed")
          : r \in apply_consumable_in_battle(s0, item_id)}

\* lines 60-69: the item is looked up in the inventory, used and consumed
UseItem(s0, item_id) ==
    IF InvGet(s0.inv, item_id) <= 0
    THEN {Step(s0, "item_missing")}
    ELSE {IF r.ok
          THEN [r.s EXCEPT !.inv = remove_item_from_inventory(@, item_id, 1)]
          ELSE Step(r.s, "item_failed")
          : r \in apply_consumable_in_battle(s0, item_id)}

\* BattleEngine.player_use_item
player_use_item(s, item_id) ==
    UNION {AfterPlayerAction(x)
           : x \in IF ~can_act(s, "player") THEN {PlayerStunned(s)}
                   ELSE UseItem(ActionStep(s, "player", TRUE), item_id)}

\* ------------------------------------------------------------------ the machine
\* the battles a run starts with: the player's profile, inventory and
\* equipment, and the enemy met
NoEquipment == [slot \in {"weapon", "armor", "accessory"} |-> NoItem]

Fighter == [player_id |-> "char_0",
            inventory |-> ("potion_small" :> 1) @@ ("ore" :> 1),
            equipment |-> [NoEquipment EXCEPT !["weapon"] = "sword",
                                              !["accessory"] = "amulet"]]

Mage == [player_id |-> "char_1",
         inventory |-> ("tonic" :> 1) @@ ("antidote" :> 1),
         equipment |-> [NoEquipment EXCEPT !["accessory"] = "ring"]]

Battles == {<<Fighter, "slime">>, <<Fighter, "golem">>, <<Mage, "bat">>}

\* the exp reward of the stage the battle is started for
StageExp == 35

NoHp == 0 - 1

\* the end-of-turn tick has not run
NoTick == [php |-> NoHp, ehp |-> NoHp, peff |-> <<>>, eeff |-> <<>>, ran |-> FALSE]

\* the record of a call before it has done anything
NewCall(kind, ti) ==
    [kind |-> kind, ti |-> ti, steps |-> <<>>, winner |-> "none", exp |-> 0,
     drops |-> <<>>, fin_php |-> NoHp, fin_ehp |-> NoHp,
     after_player_ehp |-> NoHp, after_enemy_php |-> NoHp,
     tick_php |-> NoHp, tick_ehp |-> NoHp, fired_now |-> {}, suppressed |-> {},
     pre_tick |-> NoTick]

\* GameController.start_stage / BattleEngine.start_battle: a player at full hp
\* meets a freshly built enemy
Init ==
    /\ FreshProgress
    /\ \E b \in Battles : /\ player_id = b[1].player_id
                          /\ inventory = b[1].inventory
                          /\ equipment = b[1].equipment
                          /\ enemy_id = b[2]
    /\ allocated_stats = ZeroStats
    /\ player_hp = PlayerTotalStats(player_id, equipment, allocated_stats, <<>>).max_hp
    /\ player_effects = <<>>
    /\ enemy_hp = Monsters[enemy_id].stats.max_hp
    /\ enemy_effects = <<>>
    /\ turn = 1
    /\ turn_index = 1
    /\ expected_exp = StageExp
    /\ drop_table_id = Monsters[enemy_id].drop_table
    /\ gimmick_used = <<>>
    /\ call = NewCall("none", 1)
    /\ hist = [n_results |-> 0, n_rolls |-> 0, n_late |-> 0,
               fired |-> [i \in 1..Len(Monsters[enemy_id].gimmicks) |-> 0],
               stun_audit |-> [w \in {"player", "enemy"} |-> NoAudit]]
    /\ level = 1
    /\ exp = 0
    /\ stat_points = 0
    /\ args = NoArgs
    /\ ret = NoRet

\* the battle record a call of the given kind starts from
Begin(kind) ==
    [php |-> player_hp, ehp |-> enemy_hp, peff |-> player_effects,
     eeff |-> enemy_effects, turn |-> turn, turn_index |-> turn_index,
     inv |-> inventory, gimmick_used |-> gimmick_used,
     expected_exp |-> expected_exp, drop_table_id |-> drop_table_id,
     lifesteal10 |-> 0,
     kind |-> kind, ti |-> turn_index, steps |-> <<>>, winner |-> "none",
     exp |-> 0, drops |-> <<>>, fin_php |-> NoHp, fin_ehp |-> NoHp,
     after_player_ehp |-> NoHp, after_enemy_php |-> NoHp,
     tick_php |-> NoHp, tick_ehp |-> NoHp, fired_now |-> {}, suppressed |-> {},
     pre_tick |-> NoTick,
     n_results |-> hist.n_results, n_rolls |-> hist.n_rolls,
     n_late |-> hist.n_late + (IF hist.n_results > 0 THEN 1 ELSE 0),
     fired |-> hist.fired, stun_audit |-> hist.stun_audit]

\* the battle state and the history the call leaves
CommitBattle(s) ==
    /\ player_hp' = s.php
    /\ enemy_hp' = s.ehp
    /\ player_effects' = s.peff
    /\ enemy_effects' = s.eeff
    /\ turn' = s.turn
    /\ turn_index' = s.turn_index
    /\ inventory' = s.inv
    /\ gimmick_used' = s.gimmick_used
    /\ call' = [kind |-> s.kind, ti |-> s.ti, steps |-> s.steps,
                winner |-> s.winner, exp |-> s.exp, drops |-> s.drops,
                fin_php |-> s.fin_php, fin_ehp |-> s.fin_ehp,
                after_player_ehp |-> s.after_player_ehp,
                after_enemy_php |-> s.after_enemy_php,
                tick_php |-> s.tick_php, tick_ehp |-> s.tick_ehp,
                fired_now |-> s.fired_now, suppressed |-> s.suppressed,
                pre_tick |-> s.pre_tick]
    /\ hist' = [n_results |-> s.n_results, n_rolls |-> s.n_rolls,
                n_late |-> s.n_late,
                fired |-> s.fired, stun_audit |-> s.stun_audit]
    /\ UNCHANGED <<saved_vars, player_id, equipment, allocated_stats, enemy_id,
                   expected_exp, drop_table_id, level, exp, stat_points>>

\* the state the call leaves
Commit(s) == CommitBattle(s) /\ UNCHANGED <<args, ret>>

\* the caller still holds the battle state and the model's bounds allow a call
CanCall ==
    /\ turn_index <= MaxTurn
    /\ hist.n_results > 0 => hist.n_late < MaxLateCalls

\* the skill ids and item ids a call is made with
SkillChoices ==
    {Players[player_id].skills[i] : i \in 1..Len(Players[player_id].skills)}
        \cup {UnknownSkill}

ItemChoices == DOMAIN inventory \cup {"potion_small", UnknownItem}

PlayerBasicAttack ==
    /\ CanCall
    /\ \E x \in player_basic_attack(Begin("basic")) : Commit(x)

PlayerUseSkill ==
    /\ CanCall
    /\ \E skill_id \in SkillChoices :
          \E x \in player_use_skill(Begin("skill"), skill_id) : Commit(x)

PlayerUseItem ==
    /\ CanCall
    /\ \E item_id \in ItemChoices :
          \E x \in player_use_item(Begin("item"), item_id) : Commit(x)

Next == PlayerBasicAttack \/ PlayerUseSkill \/ PlayerUseItem

Spec == Init /\ [][Next]_vars

\* ------------------------------------------------------------------ outside a battle
battle_vars == <<player_hp, player_effects, enemy_id, enemy_hp, enemy_effects,
                 turn, turn_index, expected_exp, drop_table_id, gimmick_used,
                 call, hist>>

player_vars == <<player_id, equipment, allocated_stats, inventory, level, exp,
                 stat_points>>

\* GameController._build_player with no saved entry: the defaults of a new
\* player of the preferred profile
FreshPlayer ==
    /\ player_id = "char_0"
    /\ equipment = NoEquipment
    /\ allocated_stats = ZeroStats
    /\ inventory = ("potion_small" :> 1)
    /\ level = 1
    /\ exp = 0
    /\ stat_points = 0

\* GameController.__init__: current_battle is None and the player is at full hp
NoBattle ==
    /\ player_hp = PlayerTotalStats(player_id, equipment, allocated_stats, <<>>).max_hp
    /\ player_effects = <<>>
    /\ enemy_id = "none"
    /\ enemy_hp = 0
    /\ enemy_effects = <<>>
    /\ turn = 0
    /\ turn_index = 0
    /\ expected_exp = 0
    /\ drop_table_id = "none"
    /\ gimmick_used = <<>>
    /\ call = NewCall("none", 0)
    /\ hist = [n_results |-> 0, n_rolls |-> 0, n_late |-> 0, fired |-> <<>>,
               stun_audit |-> [w \in {"player", "enemy"} |-> NoAudit]]

\* ------------------------------------------------------------------ skill damage
\* the total stats the damage of every catalog skill is computed for
AttackerStats == {Stats(a, m, 0, 0, 0) : a \in {1, 20}, m \in {0, 12}}

DefenderStats == {Stats(0, 0, d, r, 0) : d \in {0 - 5, 5, 11, 100}, r \in {0, 100}}

InitDamage ==
    /\ FreshProgress
    /\ FreshPlayer
    /\ NoBattle
    /\ args \in [fn : {"SkillDamage"}, skill_id : SkillIds,
                 atk_stats : AttackerStats, def_stats : DefenderStats]
    /\ ret = NoRet

\* lines 157-175 of _use_skill on the drawn skill and stats
ComputeDamage ==
    /\ args.fn = "SkillDamage"
    /\ ~ret.done
    /\ ret' = Returned(SkillDamage(Skills[args.skill_id], args.atk_stats,
                                   args.def_stats))
    /\ UNCHANGED <<saved_vars, battle_vars, player_vars, args>>

SpecDamage == InitDamage /\ [][ComputeDamage]_vars

\* ------------------------------------------------------------------ loot.py
\* the entries and the drop tables roll_drop is called on
LootEntries ==
    {DropEntry(item, chance10, min, max) :
        item \in {"a", "b"}, chance10 \in {0, 5, 10}, min \in {1, 2}, max \in {1, 2}}

LootTables ==
    {<<>>} \cup {<<e>> : e \in LootEntries}
           \cup {<<e1, e2>> : e1 \in LootEntries, e2 \in LootEntries}

InitLoot ==
    /\ FreshProgress
    /\ FreshPlayer
    /\ NoBattle
    /\ args \in [fn : {"roll_drop"}, table : LootTables]
    /\ ret = NoRet

\* roll_drop on the drawn table, over the values of the rng
RollDrop ==
    /\ args.fn = "roll_drop"
    /\ ~ret.done
    /\ \E results \in RollFrom(args.table, 1) : ret' = Returned(results)
    /\ UNCHANGED <<saved_vars, battle_vars, player_vars, args>>

SpecLoot == InitLoot /\ [][RollDrop]_vars

\* ------------------------------------------------------------------ progression.py
\* a threshold that does not grow with the level
exp_to_next_flat(lv) == 30

\* a threshold that is never positive
exp_to_next_spent(lv) == 20 - lv * 10 - 20

\* exp_to_next
exp_to_next(lv) == 20 + lv * 10

RECURSIVE LevelUpLoop(_, _, _, _)
\* the while loop of gain_exp; ups counts the level-up lines logged
LevelUpLoop(lv, e, sp, ups) ==
    IF e >= exp_to_next(lv)
    THEN LevelUpLoop(lv + 1, e - exp_to_next(lv), sp + 4, ups + 1)
    ELSE [level |-> lv, exp |-> e, stat_points |-> sp, ups |-> ups]

\* a gain_exp that tests the threshold once instead of looping
gain_exp_one_level(lv, e, sp, amount) ==
    IF e + amount >= exp_to_next(lv)
    THEN [level |-> lv + 1, exp |-> e + amount - exp_to_next(lv),
          stat_points |-> sp + 4, ups |-> 1]
    ELSE [level |-> lv, exp |-> e + amount, stat_points |-> sp, ups |-> 0]

\* gain_exp on the player's level, exp and stat_points
gain_exp(lv, e, sp, amount) == LevelUpLoop(lv, e + amount, sp, 0)

\* the exp amounts gain_exp is called with
ExpAmounts == {0, 5, 35, 100}

InitProgression ==
    /\ FreshProgress
    /\ FreshPlayer
    /\ NoBattle
    /\ args = NoArgs
    /\ ret = NoRet

\* the state a gain_exp call leaves; the call is recorded with the player's
\* fields on entry
GainExpDone(amount, r) ==
    /\ level' = r.level
    /\ exp' = r.exp
    /\ stat_points' = r.stat_points
    /\ args' = [fn |-> "gain_exp", amount |-> amount, level |-> level,
                exp |-> exp, stat_points |-> stat_points]
    /\ ret' = Returned(r.ups)
    /\ UNCHANGED <<saved_vars, battle_vars, player_id, equipment, allocated_stats, inventory>>

GainExp ==
    /\ level <= MaxLevel
    /\ \E amount \in ExpAmounts :
          GainExpDone(amount, gain_exp(level, exp, stat_points, amount))

SpecProgression == InitProgression /\ [][GainExp]_vars

\* ------------------------------------------------------------------ gain_exp, pass by pass
\* the level-up loop is followed while the level is below this
MaxLoopLevel == 12

\* the amounts the pass-by-pass gain_exp is called with
LoopAmounts == {0 - 50, 0, 5, 35, 100, 400}

\* gain_exp(player, amount) has been called and has not yet run a line
InitGainExp ==
    /\ FreshProgress
    /\ player_id = "char_0"
    /\ equipment = NoEquipment
    /\ allocated_stats = ZeroStats
    /\ inventory = ("potion_small" :> 1)
    /\ level \in 1..3
    /\ exp \in {0, 25}
    /\ stat_points = 0
    /\ NoBattle
    /\ args \in {[fn |-> "gain_exp", amount |-> a, level |-> lv, pc |-> "add"]
                    : a \in LoopAmounts, lv \in {level}}
    /\ ret = NoRet

\* line 16: player.exp += amount
AddExp ==
    /\ args.pc = "add"
    /\ exp' = exp + args.amount
    /\ args' = [args EXCEPT !.pc = "while"]
    /\ UNCHANGED <<saved_vars, battle_vars, player_id, equipment, allocated_stats,
                   inventory, level, stat_points, ret>>

\* lines 18-22: the loop's test holds and its body runs once
LevelUp ==
    /\ args.pc = "while"
    /\ level < MaxLoopLevel
    /\ exp >= exp_to_next(level)
    /\ exp' = exp - exp_to_next(level)
    /\ level' = level + 1
    /\ stat_points' = stat_points + 4
    /\ UNCHANGED <<saved_vars, battle_vars, player_id, equipment, allocated_stats,
                   inventory, args, ret>>

\* lines 18 and 23: the loop's test fails and the logs are returned
ReturnLogs ==
    /\ args.pc = "while"
    /\ exp < exp_to_next(level)
    /\ args' = [args EXCEPT !.pc = "done"]
    /\ ret' = Returned(level - args.level)
    /\ UNCHANGED <<saved_vars, battle_vars, player_vars>>

NextGainExp == AddExp \/ LevelUp \/ ReturnLogs

\* the interpreter runs the next line of the call as long as there is one
SpecGainExp == InitGainExp /\ [][NextGainExp]_vars /\ WF_vars(NextGainExp)

\* ------------------------------------------------------------------ equipment
\* items.add_item_to_inventory / GameStateManager._add_inventory on the dict
add_item_to_inventory(inv, item_id, qty) ==
    [k \in DOMAIN inv \cup {item_id} |->
        IF k = item_id THEN InvGet(inv, item_id) + Max2(1, qty) ELSE inv[k]]

\* the outcome of an equip or unequip call: the flag returned and the
\* inventory and equipment the call leaves
Outcome(ok, inv, equip) == [ok |-> ok, inv |-> inv, equip |-> equip]

\* the slot names both functions accept
ValidSlots == {"weapon", "armor", "accessory"}

\* an equip_item without the check that the item is held
equip_item_unheld(inv, equip, item_id) ==
    IF item_id \notin ItemIds THEN Outcome(FALSE, inv, equip)
    ELSE IF Items[item_id].type # "equipment" THEN Outcome(FALSE, inv, equip)
    ELSE IF Items[item_id].slot \notin ValidSlots THEN Outcome(FALSE, inv, equip)
    ELSE Outcome(TRUE,
                 remove_item_from_inventory(
                     IF equip[Items[item_id].slot] # NoItem
                     THEN add_item_to_inventory(inv, equip[Items[item_id].slot], 1)
                     ELSE inv,
                     item_id, 1),
                 [equip EXCEPT ![Items[item_id].slot] = item_id])

\* an equip_item that drops the item the slot held instead of returning it
equip_item_dropping(inv, equip, item_id) ==
    IF item_id \notin ItemIds THEN Outcome(FALSE, inv, equip)
    ELSE IF Items[item_id].type # "equipment" THEN Outcome(FALSE, inv, equip)
    ELSE IF Items[item_id].slot \notin ValidSlots THEN Outcome(FALSE, inv, equip)
    ELSE IF InvGet(inv, item_id) <= 0 THEN Outcome(FALSE, inv, equip)
    ELSE Outcome(TRUE, remove_item_from_inventory(inv, item_id, 1),
                 [equip EXCEPT ![Items[item_id].slot] = item_id])

\* items.equip_item
equip_item(inv, equip, item_id) ==
    IF item_id \notin ItemIds THEN Outcome(FALSE, inv, equip)
    ELSE IF Items[item_id].type # "equipment" THEN Outcome(FALSE, inv, equip)
    ELSE IF Items[item_id].slot \notin ValidSlots THEN Outcome(FALSE, inv, equip)
    ELSE IF InvGet(inv, item_id) <= 0 THEN Outcome(FALSE, inv, equip)
    ELSE Outcome(TRUE,
                 remove_item_from_inventory(
                     IF equip[Items[item_id].slot] # NoItem
                     THEN add_item_to_inventory(inv, equip[Items[item_id].slot], 1)
                     ELSE inv,
                     item_id, 1),
                 [equip EXCEPT ![Items[item_id].slot] = item_id])

\* items.unequip_slot
unequip_slot(inv, equip, slot) ==
    IF slot \notin ValidSlots THEN Outcome(FALSE, inv, equip)
    ELSE IF equip[slot] = NoItem THEN Outcome(FALSE, inv, equip)
    ELSE Outcome(TRUE, add_item_to_inventory(inv, equip[slot], 1),
                 [equip EXCEPT ![slot] = NoItem])

\* GameStateManager.equip: DataManager.get_item answers an unknown id with a
\* material that has no slot; the slot name itself is not checked
GameStateManager_equip(inv, equip, item_id) ==
    IF item_id \notin ItemIds THEN Outcome(FALSE, inv, equip)
    ELSE IF Items[item_id].type # "equipment" \/ Items[item_id].slot = "none"
    THEN Outcome(FALSE, inv, equip)
    ELSE IF InvGet(inv, item_id) <= 0 THEN Outcome(FALSE, inv, equip)
    ELSE Outcome(TRUE,
                 remove_item_from_inventory(
                     IF equip[Items[item_id].slot] # NoItem
                     THEN add_item_to_inventory(inv, equip[Items[item_id].slot], 1)
                     ELSE inv,
                     item_id, 1),
                 [equip EXCEPT ![Items[item_id].slot] = item_id])

\* GameStateManager.unequip
GameStateManager_unequip(inv, equip, slot) ==
    IF slot \notin ValidSlots THEN Outcome(FALSE, inv, equip)
    ELSE IF equip[slot] = NoItem THEN Outcome(FALSE, inv, equip)
    ELSE Outcome(TRUE, add_item_to_inventory(inv, equip[slot], 1),
                 [equip EXCEPT ![slot] = NoItem])

\* the items a player may have collected, and the ids and slot names the
\* calls are made with
Stock == {"sword", "ring", "amulet", "potion_small"}
EquipArgs == Stock \cup {"ore", UnknownItem}
SlotArgs == ValidSlots \cup {"boots"}

\* a player outside a battle who holds one each of some items of the stock
InitEquip ==
    /\ FreshProgress
    /\ player_id = "char_0"
    /\ equipment = NoEquipment
    /\ allocated_stats = ZeroStats
    /\ \E S \in SUBSET Stock : inventory = [k \in S |-> 1]
    /\ level = 1
    /\ exp = 0
    /\ stat_points = 0
    /\ NoBattle
    /\ args = NoArgs
    /\ ret = NoRet

\* the caller of fn(arg) gets the outcome r; after a success the hp is
\* clamped to the new total max_hp (sync_player_hp / sync_hp_to_total)
EquipCall(fn, arg, r) ==
    /\ args' = [fn |-> fn, arg |-> arg, inventory |-> inventory,
                equipment |-> equipment]
    /\ ret' = Returned(r.ok)
    /\ inventory' = r.inv
    /\ equipment' = r.equip
    /\ player_hp' = IF r.ok
                    THEN Min2(player_hp,
                              PlayerTotalStats(player_id, r.equip, allocated_stats,
                                               <<>>).max_hp)
                    ELSE player_hp
    /\ UNCHANGED <<saved_vars, player_id, allocated_stats, level, exp, stat_points,
                   player_effects, enemy_id, enemy_hp, enemy_effects, turn,
                   turn_index, expected_exp, drop_table_id, gimmick_used, call,
                   hist>>

\* GameController.equip_item
EquipItem ==
    \E item_id \in EquipArgs :
        EquipCall("equip_item", item_id, equip_item(inventory, equipment, item_id))

\* GameController.unequip
UnequipSlot ==
    \E slot \in SlotArgs :
        EquipCall("unequip_slot", slot, unequip_slot(inventory, equipment, slot))

\* GameStateManager.equip
ManagerEquip ==
    \E item_id \in EquipArgs :
        EquipCall("equip", item_id,
                  GameStateManager_equip(inventory, equipment, item_id))

\* GameStateManager.unequip
ManagerUnequip ==
    \E slot \in SlotArgs :
        EquipCall("unequip", slot,
                  GameStateManager_unequip(inventory, equipment, slot))

NextEquip == EquipItem \/ UnequipSlot \/ ManagerEquip \/ ManagerUnequip

SpecEquip == InitEquip /\ [][NextEquip]_vars

\* ------------------------------------------------------------------ stat points
\* calls are made while the player holds at most this many unspent points
\* and has allocated at most this many
MaxPoints == 6

\* the spend mappings apply_stat_points is called with, and the keys and
\* point counts allocate_stat is called with
Spends == [{"attack", "max_hp"} -> {0 - 2, 0, 1, 3}]
AllocateArgs == {"attack", "max_hp", "luck"} \X {0, 1, 3, 9}

\* the outcome of an allocation call: the value returned and the stat_points
\* and allocated_stats the call leaves
Allocated(value, sp, alloc) ==
    [value |-> value, stat_points |-> sp, allocated_stats |-> alloc]

\* an apply_stat_points without the test of the total
apply_stat_points_unchecked(sp, alloc, spend) ==
    Allocated("None", sp - (spend["attack"] + spend["max_hp"]),
              [k \in DOMAIN alloc |->
                  alloc[k] + (IF k \in DOMAIN spend /\ spend[k] > 0
                              THEN spend[k] ELSE 0)])

\* GameController.apply_stat_points
apply_stat_points(sp, alloc, spend) ==
    IF spend["attack"] + spend["max_hp"] > sp THEN Allocated("None", sp, alloc)
    ELSE Allocated("None", sp - (spend["attack"] + spend["max_hp"]),
                   [k \in DOMAIN alloc |->
                       alloc[k] + (IF k \in DOMAIN spend /\ spend[k] > 0
                                   THEN spend[k] ELSE 0)])

\* GameStateManager.allocate_stat
allocate_stat(sp, alloc, stat_key, points) ==
    IF stat_key \notin StatKeys THEN Allocated(FALSE, sp, alloc)
    ELSE IF sp < Max2(1, points) THEN Allocated(FALSE, sp, alloc)
    ELSE Allocated(TRUE, sp - Max2(1, points),
                   [alloc EXCEPT ![stat_key] = @ + Max2(1, points)])

\* a new player, or one who has just gained a level and its 4 points
InitAlloc ==
    /\ FreshProgress
    /\ player_id = "char_0"
    /\ equipment = NoEquipment
    /\ allocated_stats = ZeroStats
    /\ inventory = ("potion_small" :> 1)
    /\ \E lv \in {1, 2} : level = lv /\ stat_points = 4 * (lv - 1)
    /\ exp = 0
    /\ NoBattle
    /\ args = NoArgs
    /\ ret = NoRet

\* the caller of fn(arg) gets the outcome r; both handlers then clamp the hp
\* to the total max_hp
AllocCall(fn, arg, r) ==
    /\ stat_points <= MaxPoints
    /\ allocated_stats.attack + allocated_stats.max_hp <= MaxPoints
    /\ args' = [fn |-> fn, arg |-> arg, stat_points |-> stat_points,
                allocated_stats |-> allocated_stats]
    /\ ret' = Returned(r.value)
    /\ stat_points' = r.stat_points
    /\ allocated_stats' = r.allocated_stats
    /\ player_hp' = Min2(player_hp,
                         PlayerTotalStats(player_id, equipment, r.allocated_stats,
                                          <<>>).max_hp)
    /\ UNCHANGED <<saved_vars, player_id, equipment, inventory, level, exp,
                   player_effects, enemy_id, enemy_hp, enemy_effects, turn,
                   turn_index, expected_exp, drop_table_id, gimmick_used, call,
                   hist>>

\* GameController.apply_stat_points
ApplyStatPoints ==
    \E spend \in Spends :
        AllocCall("apply_stat_points", spend,
                  apply_stat_points(stat_points, allocated_stats, spend))

\* GameStateManager.allocate_stat
AllocateStat ==
    \E a \in AllocateArgs :
        AllocCall("allocate_stat", a,
                  allocate_stat(stat_points, allocated_stats, a[1], a[2]))

NextAlloc == ApplyStatPoints \/ AllocateStat

SpecAlloc == InitAlloc /\ [][NextAlloc]_vars

\* ------------------------------------------------------------------ total stats
\* the players total_stats is asked for: profile, equipment, allocated points
\* and active effects
InitStats ==
    /\ FreshProgress
    /\ player_id \in PlayerIds
    /\ \E w \in {NoItem, "sword", "cursed_blade"}, a \in {NoItem, "helm"},
          c \in {NoItem, "ring", "amulet"} :
          equipment = [NoEquipment EXCEPT !["weapon"] = w, !["armor"] = a,
                                          !["accessory"] = c]
    /\ allocated_stats \in {Stats(a, 0, 0, 0, h) : a \in {0, 2}, h \in {0, 3}}
    /\ player_effects \in
          {<<>>,
           <<EffectInstance("buff_stats", 2, 0, Stats(1, 0, 0, 0, 5))>>,
           <<EffectInstance("debuff_stats", 1, 0, Stats(0, 0, 0, 0, 0 - 4)),
             EffectInstance("bleed", 2, 20, ZeroStats)>>}
    /\ inventory = ("potion_small" :> 1)
    /\ level = 1
    /\ exp = 0
    /\ stat_points = 0
    /\ player_hp = 1
    /\ enemy_id = "none"
    /\ enemy_hp = 0
    /\ enemy_effects = <<>>
    /\ turn = 0
    /\ turn_index = 0
    /\ expected_exp = 0
    /\ drop_table_id = "none"
    /\ gimmick_used = <<>>
    /\ call = NewCall("none", 0)
    /\ hist = [n_results |-> 0, n_rolls |-> 0, n_late |-> 0, fired |-> <<>>,
               stun_audit |-> [w \in {"player", "enemy"} |-> NoAudit]]
    /\ args = NoArgs
    /\ ret = NoRet

\* Player.get_total_stats(items)
GetTotalStats ==
    /\ ~ret.done
    /\ args' = [fn |-> "total_stats"]
    /\ ret' = Returned(PlayerTotalStats(player_id, equipment, allocated_stats,
                                        player_effects))
    /\ UNCHANGED <<saved_vars, battle_vars, player_vars>>

SpecStats == InitStats /\ [][GetTotalStats]_vars

\* ------------------------------------------------------------------ one skill use
\* the mage meets the golem: the hp of both and the player's effects as a
\* battle may have left them when the player uses a skill
InitSkill ==
    /\ FreshProgress
    /\ player_id = Mage.player_id
    /\ inventory = Mage.inventory
    /\ equipment = Mage.equipment
    /\ allocated_stats = ZeroStats
    /\ enemy_id = "golem"
    /\ player_hp \in 1..20
    /\ player_effects \in
          {<<>>, <<EffectInstance("debuff_stats", 2, 0, Stats(0, 0, 0, 0, 0 - 4))>>}
    /\ enemy_hp \in {5, 13, 24}
    /\ enemy_effects = <<>>
    /\ turn = 2
    /\ turn_index = 2
    /\ expected_exp = StageExp
    /\ drop_table_id = Monsters[enemy_id].drop_table
    /\ gimmick_used = <<>>
    /\ call = NewCall("none", 2)
    /\ hist = [n_results |-> 0, n_rolls |-> 0, n_late |-> 0,
               fired |-> [i \in 1..Len(Monsters[enemy_id].gimmicks) |-> 0],
               stun_audit |-> [w \in {"player", "enemy"} |-> NoAudit]]
    /\ level = 1
    /\ exp = 0
    /\ stat_points = 0
    /\ args = NoArgs
    /\ ret = NoRet

\* BattleEngine._use_skill with the player as the attacker; the record of the
\* call is kept under the skill's id
UseSkillOnce ==
    /\ call.kind = "none"
    /\ \E skill_id \in {"drain", "warcry", "__basic__"} :
          \E x \in UseSkill(Begin(skill_id), "player", skill_id) : Commit(x)

SpecSkill == InitSkill /\ [][UseSkillOnce]_vars

\* ------------------------------------------------------------------ one item use
\* the fighter meets the golem: the inventory, the hp and the effects of the
\* player as drops and a battle may have left them when the player uses an
\* item
InitItem ==
    /\ FreshProgress
    /\ player_id = Fighter.player_id
    /\ equipment = Fighter.equipment
    /\ allocated_stats = ZeroStats
    /\ inventory \in {("potion_small" :> n) @@ ("tonic" :> m) @@ ("ore" :> 1)
                         : n \in 1..2, m \in 1..2}
                     \cup {("antidote" :> 2), ("ore" :> 1)}
    /\ enemy_id = "golem"
    /\ player_hp \in {5, 12}
    /\ player_effects \in {<<>>, <<EffectInstance("stun", 1, 0, ZeroStats)>>,
                           <<EffectInstance("bleed", 2, 20, ZeroStats)>>}
    /\ enemy_hp = 24
    /\ enemy_effects = <<>>
    /\ turn = 2
    /\ turn_index = 2
    /\ expected_exp = StageExp
    /\ drop_table_id = Monsters[enemy_id].drop_table
    /\ gimmick_used = <<>>
    /\ call = NewCall("none", 2)
    /\ hist = [n_results |-> 0, n_rolls |-> 0, n_late |-> 0,
               fired |-> [i \in 1..Len(Monsters[enemy_id].gimmicks) |-> 0],
               stun_audit |-> [w \in {"player", "enemy"} |-> NoAudit]]
    /\ level = 1
    /\ exp = 0
    /\ stat_points = 0
    /\ args = NoArgs
    /\ ret = NoRet

\* BattleEngine.player_use_item(state, item_id); the call is recorded with
\* the inventory on entry
UseItemOnce ==
    /\ call.kind = "none"
    /\ \E item_id \in ItemChoices \cup {"sword"} :
          /\ \E x \in player_use_item(Begin("item"), item_id) : CommitBattle(x)
          /\ args' = [fn |-> "player_use_item", item_id |-> item_id,
                      inventory |-> inventory]
          /\ ret' = Returned(call'.winner)

SpecItem == InitItem /\ [][UseItemOnce]_vars

\* ------------------------------------------------------------------ dungeon progress
\* str(n) of the zone numbers met; int(zone) is its inverse on these names
ZoneNames == <<"1", "2", "3", "4", "5", "6", "7", "8", "9", "10", "11", "12">>

ZoneStr(n) == ZoneNames[n]

ZoneInt(zone) == CHOOSE n \in DOMAIN ZoneNames : ZoneNames[n] = zone

\* the highest zone number clear_stage unlocks, and the highest stage of a zone
MaxZone == 10
MaxStage == 5

\* dict.get(key, default) and dict[key] = value
DictGet(d, key, default) == IF key \in DOMAIN d THEN d[key] ELSE default

DictSet(d, key, value) ==
    [k \in DOMAIN d \cup {key} |-> IF k = key THEN value ELSE d[k]]

\* x in a list
InList(x, list) == \E i \in DOMAIN list : list[i] = x

is_stage_unlocked(p, zone, stage) ==
    IF ~InList(zone, p.unlocked_zones) THEN FALSE
    ELSE stage <= DictGet(p.unlocked_stage_by_zone, zone, 0)

\* a clear that raises the zone's level only from a stage above it
RaiseStage_strict(p, zone, stage) ==
    IF stage > DictGet(p.unlocked_stage_by_zone, zone, 1)
    THEN [p EXCEPT !.unlocked_stage_by_zone =
                       DictSet(@, zone, Min2(MaxStage, stage + 1))]
    ELSE p

\* clear_stage lines 20-22: the zone's level after the stage is cleared
RaiseStage(p, zone, stage) ==
    IF stage >= DictGet(p.unlocked_stage_by_zone, zone, 1)
    THEN [p EXCEPT !.unlocked_stage_by_zone =
                       DictSet(@, zone, Min2(MaxStage, stage + 1))]
    ELSE p

\* a next zone unlocked whatever its number
UnlockNext_uncapped(p, zone, stage) ==
    IF stage >= MaxStage
    THEN LET next_zone == ZoneStr(ZoneInt(zone) + 1)
         IN  IF ~InList(next_zone, p.unlocked_zones)
             THEN [unlocked_zones |-> Append(p.unlocked_zones, next_zone),
                   unlocked_stage_by_zone |->
                       DictSet(p.unlocked_stage_by_zone, next_zone, 1)]
             ELSE p
    ELSE p

\* a next zone whose level is set to 1 at every clear of the last stage
UnlockNext_resetting(p, zone, stage) ==
    IF stage >= MaxStage
    THEN LET next_zone == ZoneStr(ZoneInt(zone) + 1)
         IN  IF ZoneInt(next_zone) <= MaxZone
             THEN [unlocked_zones |-> IF InList(next_zone, p.unlocked_zones)
                                      THEN p.unlocked_zones
                                      ELSE Append(p.unlocked_zones, next_zone),
                   unlocked_stage_by_zone |->
                       DictSet(p.unlocked_stage_by_zone, next_zone, 1)]
             ELSE p
    ELSE p

\* clear_stage lines 24-28: the next zone after the last stage is cleared
UnlockNext(p, zone, stage) ==
    IF stage >= MaxStage
    THEN LET next_zone == ZoneStr(ZoneInt(zone) + 1)
         IN  IF ~InList(next_zone, p.unlocked_zones) /\ ZoneInt(next_zone) <= MaxZone
             THEN [unlocked_zones |-> Append(p.unlocked_zones, next_zone),
                   unlocked_stage_by_zone |->
                       DictSet(p.unlocked_stage_by_zone, next_zone, 1)]
             ELSE p
    ELSE p

clear_stage(p, zone, stage) == UnlockNext(RaiseStage(p, zone, stage), zone, stage)

\* the zones and stages clear_stage is called with
ZoneArgs == {"1", "2", "9", "10"}
StageArgs == {1, 4, 5}

InitDungeon ==
    /\ FreshPlayer
    /\ FreshProgress
    /\ NoBattle
    /\ args = NoArgs
    /\ ret = NoRet

\* DungeonProgress.clear_stage(zone, stage)
ClearStage ==
    /\ \E zone \in ZoneArgs, stage \in StageArgs :
          /\ args' = [fn |-> "clear_stage", zone |-> zone, stage |-> stage,
                      before |-> dungeon_progress]
          /\ dungeon_progress' = clear_stage(dungeon_progress, zone, stage)
    /\ ret' = Returned("None")
    /\ UNCHANGED <<battle_vars, player_vars, progress>>

SpecDungeon == InitDungeon /\ [][ClearStage]_vars

\* ------------------------------------------------------------------ catalog load
\* what a call gives back: a value, or the exception it raised
Value(v) == [ok |-> TRUE, value |-> v]
Raised(error) == [ok |-> FALSE, error |-> error]

\* the payloads of the catalog files, by the fields validate_all looks at: a
\* skill, stats block or item by its shape ("ok" or the defect), an actor by
\* its skill list, a drop table by the item ids of its entries
RawSkills == {<<>>, ("slash" :> "ok"), ("slash" :> "scale_missing")}

RawPlayers ==
    {("char_0" :> [base_stats |-> "ok", skills |-> sk]) :
        sk \in {<<>>, <<"slash">>, <<"ghost", "slash">>, <<"__basic__">>}}

RawMonsters ==
    {("slime" :> [stats |-> st, skills |-> sk]) :
        st \in {"ok", "max_hp_not_a_number"}, sk \in {<<"slash">>, <<"ghost">>}}

RawBosses ==
    {<<>>} \cup {("zone1_boss" :> [skills |-> sk]) :
                    sk \in {<<>>, <<"slash">>, <<"ghost">>}}

RawItems ==
    {<<>>, ("potion" :> [type |-> "material", slot |-> "None"]),
           ("potion" :> [type |-> "equipment", slot |-> "hat"])}

RawDropTables ==
    {("t" :> [is_list |-> l, items |-> e]) :
        l \in {TRUE}, e \in {<<>>, <<"potion">>, <<"potion", "phantom">>}}
        \cup {("t" :> [is_list |-> FALSE, items |-> <<>>])}

\* _ensure_basic_skill
ensure_basic_skill(c) ==
    [c EXCEPT !.skills = [id \in DOMAIN c.skills \cup {"__basic__"} |->
                             IF id = "__basic__" THEN "ok" ELSE c.skills[id]]]

\* _sanitize_actor_skills
sanitize_actor_skills(c, skill_ids) ==
    LET sanitized == SelectSeq(skill_ids, LAMBDA sid : sid \in DOMAIN c.skills)
    IN  IF sanitized = <<>> THEN <<"__basic__">> ELSE sanitized

\* validate_all lines 97-115
SkillsError(c) == \E id \in DOMAIN c.skills : c.skills[id] # "ok"

\* validate_all lines 118-128
PlayersError(c) ==
    \/ c.default_player_id # "None" /\ c.default_player_id \notin DOMAIN c.players
    \/ \E id \in DOMAIN c.players : c.players[id].base_stats # "ok"

\* validate_all lines 133-141
MonstersError(c) == \E id \in DOMAIN c.monsters : c.monsters[id].stats # "ok"

\* validate_all lines 146-182
ItemsError(c) ==
    \E id \in DOMAIN c.items :
        \/ c.items[id].type \notin {"equipment", "consumable", "material"}
        \/ /\ c.items[id].type = "equipment"
           /\ c.items[id].slot \notin {"weapon", "armor", "accessory"}

\* a load that does not look at the drop tables
DropTablesError_unchecked(c) == FALSE

\* validate_all lines 185-191
DropTablesError(c) ==
    \E name \in DOMAIN c.drop_tables :
        \/ ~c.drop_tables[name].is_list
        \/ \E i \in DOMAIN c.drop_tables[name].items :
              c.drop_tables[name].items[i] \notin DOMAIN c.items

validate_all(c) ==
    IF SkillsError(c) THEN Raised("ValueError: skills.json")
    ELSE IF PlayersError(c) THEN Raised("ValueError: players.json")
    ELSE IF MonstersError(c) THEN Raised("ValueError: monsters.json")
    ELSE IF ItemsError(c) THEN Raised("ValueError: items.json")
    ELSE IF DropTablesError(c) THEN Raised("ValueError: items.json drop_table")
    ELSE Value([c EXCEPT
             !.players = [id \in DOMAIN c.players |->
                 [c.players[id] EXCEPT !.skills = sanitize_actor_skills(c, @)]],
             !.monsters = [id \in DOMAIN c.monsters |->
                 [c.monsters[id] EXCEPT !.skills = sanitize_actor_skills(c, @)]]])

\* DataStore.load_all: the store after the load, or the error
load_all(raw) ==
    IF ~raw.readable THEN Raised("RuntimeError")
    ELSE validate_all(ensure_basic_skill(
             [players |-> raw.players, default_player_id |-> raw.default_player_id,
              skills |-> raw.skills, monsters |-> raw.monsters,
              items |-> raw.items, drop_tables |-> raw.drop_tables,
              bosses |-> raw.bosses]))

InitCatalog ==
    /\ FreshPlayer
    /\ FreshProgress
    /\ NoBattle
    /\ args \in [fn : {"load_all"}, readable : BOOLEAN,
                  players : RawPlayers, default_player_id : {"None", "char_0", "char_9"},
                  skills : RawSkills, monsters : RawMonsters, bosses : RawBosses,
                  items : RawItems, drop_tables : RawDropTables]
    /\ ret = NoRet

LoadAll ==
    /\ ~ret.done
    /\ ret' = Returned(load_all(args))
    /\ UNCHANGED <<saved_vars, battle_vars, player_vars, args>>

SpecCatalog == InitCatalog /\ [][LoadAll]_vars

\* ------------------------------------------------------------------ catalog lookups
\* DataManager._fallback_skill, _fallback_item, _fallback_monster
fallback_skill(skill_id) ==
    [name |-> skill_id, base_physical |-> 0, base_magic |-> 0,
     scale10 |-> [attack |-> 0, magic |-> 0], apply_effects |-> <<>>]

fallback_item(item_id) ==
    [name |-> item_id, type |-> "material", slot |-> "None", stats |-> ZeroStats]

fallback_monster(monster_id) ==
    [name |-> monster_id, stats |-> ZeroStats, ai |-> "basic",
     skills |-> <<"__basic__">>, gimmicks |-> <<>>]

\* DataStore.get_player, get_skill, get_monster: self.<dict>[id] or KeyError
DataStoreGet(catalog, id) ==
    IF id \notin DOMAIN catalog THEN Raised("KeyError") ELSE Value(catalog[id])

\* DataStore.get_item: self.items.get(item_id)
DataStoreGetItem(item_id) ==
    IF item_id \in ItemIds THEN Value(Items[item_id]) ELSE Value("None")

\* DataManager.get_skill, get_item, get_monster: the definition or the fallback
DataManagerGet(catalog, id, fallback) ==
    IF id \in DOMAIN catalog THEN Value(catalog[id]) ELSE Value(fallback)

\* one lookup of the catalog
Lookup(fn, id) ==
    CASE fn = "DataStore.get_player" -> DataStoreGet(Players, id)
      [] fn = "DataStore.get_skill" -> DataStoreGet(Skills, id)
      [] fn = "DataStore.get_monster" -> DataStoreGet(Monsters, id)
      [] fn = "DataStore.get_item" -> DataStoreGetItem(id)
      [] fn = "DataManager.get_skill" -> DataManagerGet(Skills, id, fallback_skill(id))
      [] fn = "DataManager.get_item" -> DataManagerGet(Items, id, fallback_item(id))
      [] fn = "DataManager.get_monster" ->
             DataManagerGet(Monsters, id, fallback_monster(id))

LookupFns ==
    {"DataStore.get_player", "DataStore.get_skill", "DataStore.get_monster",
     "DataStore.get_item", "DataManager.get_skill", "DataManager.get_item",
     "DataManager.get_monster"}

\* the catalog a lookup of fn searches
CatalogIds(fn) ==
    CASE fn = "DataStore.get_player" -> PlayerIds
      [] fn \in {"DataStore.get_skill", "DataManager.get_skill"} -> SkillIds
      [] fn \in {"DataStore.get_monster", "DataManager.get_monster"} -> EnemyIds
      [] fn \in {"DataStore.get_item", "DataManager.get_item"} -> ItemIds

InitLookup ==
    /\ FreshPlayer
    /\ FreshProgress
    /\ NoBattle
    /\ args \in [fn : LookupFns,
                  id : PlayerIds \cup SkillIds \cup EnemyIds \cup ItemIds
                         \cup {UnknownSkill, UnknownItem}]
    /\ ret = NoRet

LookupId ==
    /\ ~ret.done
    /\ ret' = Returned(Lookup(args.fn, args.id))
    /\ UNCHANGED <<saved_vars, battle_vars, player_vars, args>>

SpecLookup == InitLookup /\ [][LookupId]_vars

\* ------------------------------------------------------------------ switching the character
\* one saved entry of progress["players"]
Entry(lv, xp, sp, alloc, hp, inv, equip, dungeon) ==
    [level |-> lv, exp |-> xp, stat_points |-> sp, allocated_stats |-> alloc,
     hp |-> hp, inventory |-> inv, equipment |-> equip, dungeon_progress |-> dungeon]

\* GameController._store_player_state
store_player_state(saved, pid, lv, xp, sp, alloc, hp, inv, equip, dungeon) ==
    DictSet(saved, pid, Entry(lv, xp, sp, alloc, hp, inv, equip, dungeon))

\* the entry GameController._build_player and _load_player_state read: the
\* saved one, or the defaults of their .get calls
SavedOrDefault(saved, pid) ==
    IF pid \in DOMAIN saved THEN saved[pid]
    ELSE Entry(1, 0, 0, ZeroStats, Players[pid].base_stats.max_hp,
               ("potion_small" :> 1), NoEquipment, NewDungeonProgress)

\* GameController._load_player_state line 121-122: the hp of the player
\* built from the entry (_build_player's own hp is overwritten)
load_player_hp(pid, entry) ==
    PlayerTotalStats(pid, entry.equipment, entry.allocated_stats, <<>>).max_hp

\* GameStateManager._build_player lines 275-291: the saved hp, or the
\* profile's when none is saved, brought down to the total max_hp
GameStateManager_build_player_hp(pid, entry) ==
    Min2(IF entry.hp # 0 THEN entry.hp ELSE Players[pid].base_stats.max_hp,
         PlayerTotalStats(pid, entry.equipment, entry.allocated_stats, <<>>).max_hp)

\* PlayerProgress(hp = base_hp)
NewPlayerProgress(pid) ==
    Entry(1, 0, 0, ZeroStats, Players[pid].base_stats.max_hp, <<>>, NoEquipment,
          NewDungeonProgress)

\* the saved entries of a character: hurt, at 0 or above its max_hp, with
\* and without armor and allocated points, in the first or a later stage
SavedEntries ==
    {Entry(2, 3, sp, Stats(0, 0, 0, 0, 4 - sp), hp, ("potion_small" :> 1),
           [NoEquipment EXCEPT !.armor = a], d) :
        sp \in {1, 4}, hp \in {0, 5, 60}, a \in {NoItem, "helm"},
        d \in {NewDungeonProgress, clear_stage(NewDungeonProgress, "1", 1)}}

\* the active character is the one its saved entry describes, hurt or not
InitSwitch ==
    /\ player_id \in PlayerIds
    /\ \E e \in SavedEntries, other \in SavedEntries \cup {NewPlayerProgress("char_0")} :
          /\ e.hp > 0
          /\ level = e.level
          /\ exp = e.exp
          /\ stat_points = e.stat_points
          /\ allocated_stats = e.allocated_stats
          /\ inventory = e.inventory
          /\ equipment = e.equipment
          /\ dungeon_progress = e.dungeon_progress
          /\ player_hp = Min2(e.hp, load_player_hp(player_id, e))
          /\ progress \in
                {[pid \in {player_id} |-> [e EXCEPT !.hp = player_hp]],
                 [pid \in PlayerIds |->
                     IF pid = player_id THEN [e EXCEPT !.hp = player_hp] ELSE other]}
    /\ player_effects = <<>>
    /\ enemy_id = "none"
    /\ enemy_hp = 0
    /\ enemy_effects = <<>>
    /\ turn = 0
    /\ turn_index = 0
    /\ expected_exp = 0
    /\ drop_table_id = "none"
    /\ gimmick_used = <<>>
    /\ call = NewCall("none", 0)
    /\ hist = [n_results |-> 0, n_rolls |-> 0, n_late |-> 0, fired |-> <<>>,
               stun_audit |-> [w \in {"player", "enemy"} |-> NoAudit]]
    /\ args = NoArgs
    /\ ret = NoRet

\* the player built from an entry becomes the active one
Activate(pid, entry, hp) ==
    /\ player_id' = pid
    /\ level' = entry.level
    /\ exp' = entry.exp
    /\ stat_points' = entry.stat_points
    /\ allocated_stats' = entry.allocated_stats
    /\ inventory' = entry.inventory
    /\ equipment' = entry.equipment
    /\ player_hp' = hp
    /\ player_effects' = <<>>

\* GameController.switch_player(pid): store, load, save
SwitchPlayer ==
    \E pid \in PlayerIds \cup {"char_9"} :
        /\ args' = [fn |-> "switch_player", player_id |-> pid, from |-> player_id]
        /\ IF pid \notin PlayerIds
           THEN /\ ret' = Returned("ignored")
                /\ UNCHANGED <<saved_vars, battle_vars, player_vars>>
           ELSE LET stored == store_player_state(progress, player_id, level, exp,
                                  stat_points, allocated_stats, player_hp,
                                  inventory, equipment, dungeon_progress)
                    entry == SavedOrDefault(stored, pid)
                    hp == load_player_hp(pid, entry)
                IN  /\ Activate(pid, entry, hp)
                    /\ dungeon_progress' = entry.dungeon_progress
                    /\ progress' = DictSet(stored, pid, [entry EXCEPT !.hp = hp])
                    /\ ret' = Returned("switched")
                    /\ UNCHANGED <<enemy_id, enemy_hp, enemy_effects, turn,
                                   turn_index, expected_exp, drop_table_id,
                                   gimmick_used, call, hist>>

\* GameStateManager.select_player(pid), its save data being progress
SelectPlayer ==
    \E pid \in PlayerIds :
        /\ args' = [fn |-> "select_player", player_id |-> pid, from |-> player_id]
        /\ IF pid = player_id
           THEN /\ ret' = Returned("ignored")
                /\ UNCHANGED <<saved_vars, battle_vars, player_vars>>
           ELSE LET saved == IF pid \in DOMAIN progress THEN progress
                             ELSE DictSet(progress, pid, NewPlayerProgress(pid))
                IN  /\ Activate(pid, saved[pid],
                                GameStateManager_build_player_hp(pid, saved[pid]))
                    /\ progress' = saved
                    /\ ret' = Returned("switched")
                    /\ UNCHANGED <<dungeon_progress, enemy_id, enemy_hp,
                                   enemy_effects, turn, turn_index, expected_exp,
                                   drop_table_id, gimmick_used, call, hist>>

NextSwitch == SwitchPlayer \/ SelectPlayer

SpecSwitch == InitSwitch /\ [][NextSwitch]_vars

\* ------------------------------------------------------------------ after the battle
\* GameController.last_zone_stage: None until start_stage stores (zone, stage)
NoStage == [zone |-> "none", stage |-> 0]

\* the values of last_zone_stage finish_battle is called under
LastZoneStages == {NoStage, [zone |-> "1", stage |-> 1], [zone |-> "1", stage |-> 5]}

RECURSIVE AddDrops(_, _, _)
\* finish_battle's loop over result.drop_details from entry i on
AddDrops(inv, drop_list, i) ==
    IF i > Len(drop_list) THEN inv
    ELSE AddDrops(add_item_to_inventory(inv, drop_list[i].item, drop_list[i].qty),
                  drop_list, i + 1)

\* a finish_battle that rewards the player whoever won
finish_battle_rewarding(result, zs, lv, e, sp, inv, dp, hp, max_hp) ==
    LET g == gain_exp(lv, e, sp, StageExp)
    IN  [level |-> g.level, exp |-> g.exp, stat_points |-> g.stat_points,
         inventory |-> AddDrops(inv, result.drops, 1),
         dungeon_progress |-> IF zs # NoStage THEN clear_stage(dp, zs.zone, zs.stage)
                              ELSE dp,
         hp |-> max_hp]

\* GameController.finish_battle up to its save: the player's fields and the
\* dungeon progress it leaves
finish_battle(result, zs, lv, e, sp, inv, dp, hp, max_hp) ==
    IF result.winner = "player"
    THEN LET g == gain_exp(lv, e, sp, result.exp)
         IN  [level |-> g.level, exp |-> g.exp, stat_points |-> g.stat_points,
              inventory |-> AddDrops(inv, result.drops, 1),
              dungeon_progress |-> IF zs # NoStage THEN clear_stage(dp, zs.zone, zs.stage)
                                   ELSE dp,
              hp |-> hp]
    ELSE [level |-> lv, exp |-> e, stat_points |-> sp, inventory |-> inv,
          dungeon_progress |-> dp, hp |-> max_hp]

\* GameController.finish_battle(result) with the result the last call
\* returned: rewards or recovery, then save; current_battle becomes None, so
\* no call of the engine follows
FinishBattle ==
    /\ call.winner # "none"
    /\ args.fn # "finish_battle"
    /\ \E zs \in LastZoneStages :
          LET max_hp == PlayerTotalStats(player_id, equipment, allocated_stats,
                                         player_effects).max_hp
              r == finish_battle(call, zs, level, exp, stat_points, inventory,
                                 dungeon_progress, player_hp, max_hp)
          IN  /\ level' = r.level
              /\ exp' = r.exp
              /\ stat_points' = r.stat_points
              /\ inventory' = r.inventory
              /\ dungeon_progress' = r.dungeon_progress
              /\ player_hp' = r.hp
              /\ progress' = store_player_state(progress, player_id, r.level, r.exp,
                                 r.stat_points, allocated_stats, r.hp, r.inventory,
                                 equipment, r.dungeon_progress)
              /\ args' = [fn |-> "finish_battle", last_zone_stage |-> zs,
                          level |-> level, exp |-> exp, stat_points |-> stat_points,
                          inventory |-> inventory,
                          dungeon_progress |-> dungeon_progress]
              /\ ret' = Returned("None")
    /\ UNCHANGED <<player_id, equipment, allocated_stats, player_effects, enemy_id,
                   enemy_hp, enemy_effects, turn, turn_index, expected_exp,
                   drop_table_id, gimmick_used, call, hist>>

\* the drop tables the results handed to finish_battle were rolled from
FinishTables ==
    {DropTables[id] : id \in DropTableIds}
        \cup {<<DropEntry("ore", 10, 0, 1), DropEntry("ore", 10, 1, 1)>>}

\* the BattleResult of a battle that gave max_exp: winner, exp, drop_details
Results ==
    {[NewCall("skill", 1) EXCEPT !.winner = "player", !.exp = x, !.drops = d,
                                 !.steps = <<"finish">>] :
        x \in {0, StageExp}, d \in UNION {RollFrom(table, 1) : table \in FinishTables}}
        \cup {[NewCall("skill", 1) EXCEPT !.winner = "enemy", !.steps = <<"finish">>]}

\* a battle has just ended: BattleEngine._finish left the player at full hp
\* with no effects
InitFinish ==
    /\ player_id = "char_0"
    /\ equipment = NoEquipment
    /\ allocated_stats = ZeroStats
    /\ inventory \in {("potion_small" :> 1), ("ore" :> 1)}
    /\ level \in {1, 2}
    /\ exp \in {0, 25}
    /\ stat_points = 0
    /\ dungeon_progress \in {NewDungeonProgress, clear_stage(NewDungeonProgress, "1", 5)}
    /\ progress = <<>>
    /\ player_hp = PlayerTotalStats(player_id, equipment, allocated_stats, <<>>).max_hp
    /\ player_effects = <<>>
    /\ enemy_id = "slime"
    /\ enemy_hp = 0
    /\ enemy_effects = <<>>
    /\ turn = 1
    /\ turn_index = 1
    /\ expected_exp = StageExp
    /\ drop_table_id = "none"
    /\ gimmick_used = <<>>
    /\ call \in Results
    /\ hist = [n_results |-> 1, n_rolls |-> 1, n_late |-> 0, fired |-> <<>>,
               stun_audit |-> [w \in {"player", "enemy"} |-> NoAudit]]
    /\ args = NoArgs
    /\ ret = NoRet

SpecFinish == InitFinish /\ [][FinishBattle]_vars

\* a battle followed by finish_battle
BattleCall == args.fn = "none" /\ Next

NextGame == BattleCall \/ FinishBattle

SpecGame == Init /\ [][NextGame]_vars

\* ------------------------------------------------------------------ effects on one actor
\* apply_effect is called while the target holds fewer instances than this
MaxEffects == 3

\* the effect specs apply_effect is called with
EffectArgs ==
    {EffectSpec("bleed", "enemy", 10, 1, 20, ZeroStats),
     EffectSpec("bleed", "enemy", 3, 2, 30, ZeroStats),
     EffectSpec("stun", "enemy", 10, 1, 0, ZeroStats),
     EffectSpec("buff_stats", "self", 10, 2, 0, Stats(1, 0, 0, 0, 5)),
     EffectSpec("heal", "self", 10, 0, 50, ZeroStats),
     EffectSpec("confuse", "enemy", 10, 1, 0, ZeroStats)}

\* the caller of fn on the player gets the actor x back; the value noted is
\* the last line the call logged
EffectCall(fn, spec, x) ==
    /\ args' = [fn |-> fn, spec |-> spec, hp |-> player_hp,
                effects |-> player_effects]
    /\ ret' = Returned(IF x.steps = <<>> THEN "none" ELSE x.steps[Len(x.steps)])
    /\ player_hp' = x.php
    /\ player_effects' = x.peff
    /\ UNCHANGED <<saved_vars, player_id, equipment, allocated_stats, inventory, level, exp,
                   stat_points, enemy_id, enemy_hp, enemy_effects, turn,
                   turn_index, expected_exp, drop_table_id, gimmick_used, call,
                   hist>>

\* effects.apply_effect on the player
ApplyEffect ==
    /\ Len(player_effects) < MaxEffects
    /\ \E spec \in EffectArgs :
          \E x \in apply_effect(Begin("apply_effect"), "player", spec) :
              EffectCall("apply_effect", spec, x)

\* effects.tick_end_of_turn on the player
TickEndOfTurn ==
    EffectCall("tick_end_of_turn", EffectSpec("none", "none", 10, 0, 0, ZeroStats),
               tick_end_of_turn(Begin("tick_end_of_turn"), "player"))

NextEffects == ApplyEffect \/ TickEndOfTurn

\* a new player outside a battle
InitEffects ==
    /\ FreshPlayer
    /\ FreshProgress
    /\ NoBattle
    /\ args = NoArgs
    /\ ret = NoRet

SpecEffects == InitEffects /\ [][NextEffects]_vars

\* ------------------------------------------------------------------ properties
HasStep(c, tag) == \E i \in 1..Len(c.steps) : c.steps[i] = tag

PlayerMaxHp == PlayerTotalStats(player_id, equipment, allocated_stats, player_effects).max_hp
EnemyMaxHp == EnemyTotalStats(enemy_id, enemy_effects).max_hp

\* C1: whenever a player-action call returns a BattleResult, the player's hp
\* equals the freshly recomputed total max_hp and the effect lists of the
\* player and of the enemy are empty, whoever won.
C1_FinishRestores ==
    call.winner # "none" =>
        /\ player_hp = PlayerMaxHp
        /\ player_effects = <<>>
        /\ enemy_effects = <<>>

\* a lost battle: the player was at 0 hp when the battle finished
C1_Witness == call.winner = "enemy" /\ call.fin_php = 0 /\ player_hp > 0

\* C2: a stun of duration D >= 1 makes its holder skip exactly its next D
\* actions: when the holder acts again it has skipped D actions.
C2_StunSkipsD ==
    \A w \in {"player", "enemy"} :
        hist.stun_audit[w].st = "done" =>
            hist.stun_audit[w].skips = hist.stun_audit[w].d

\* C3: a skill resolution that leaves the defender at 0 hp finishes the battle
\* in that step: after a killing player action there is no enemy action, no
\* tick and no turn increment and the winner is the player; after a killing
\* enemy action there is no tick and the winner is the enemy.
C3_KillFinishesAtOnce ==
    /\ (call.after_player_ehp # NoHp /\ call.after_player_ehp <= 0) =>
          /\ call.winner = "player"
          /\ \A tag \in {"enemy_acts", "enemy_stunned", "tick_player",
                         "tick_enemy", "turn_inc"} : ~HasStep(call, tag)
    /\ (call.after_enemy_php # NoHp /\ call.after_enemy_php <= 0) =>
          /\ call.winner = "enemy"
          /\ \A tag \in {"tick_player", "tick_enemy", "turn_inc"} : ~HasStep(call, tag)

\* the enemy's skill brought the player to 0 in the first battle result
C3_Witness ==
    /\ call.after_enemy_php = 0
    /\ call.winner = "enemy"
    /\ hist.n_results = 1
    /\ HasStep(call, "enemy_acts")

\* C4: once a call has returned a BattleResult, no later call on the same
\* battle state changes an actor's hp or effects, rolls loot or returns
\* another result.
C4_FinishedIsTerminal ==
    [][hist.n_results >= 1 =>
          /\ UNCHANGED <<player_hp, enemy_hp, player_effects, enemy_effects>>
          /\ hist'.n_results = hist.n_results
          /\ hist'.n_rolls = hist.n_rolls]_vars

\* C5: a gimmick with once = true fires at most once on a battle state.
C5_OnceFiresOnce ==
    \A idx \in 1..Len(Monsters[enemy_id].gimmicks) :
        Monsters[enemy_id].gimmicks[idx].once => hist.fired[idx] <= 1

\* a once gimmick that has fired meets its trigger condition again and is skipped
C5_Witness ==
    \E idx \in 1..Len(Monsters[enemy_id].gimmicks) :
        /\ Monsters[enemy_id].gimmicks[idx].once
        /\ hist.fired[idx] = 1
        /\ idx \in call.suppressed

\* the repeating every_n_turns gimmicks of the enemy
Repeating ==
    {idx \in 1..Len(Monsters[enemy_id].gimmicks) :
        /\ Monsters[enemy_id].gimmicks[idx].trigger = "every_n_turns"
        /\ ~Monsters[enemy_id].gimmicks[idx].once
        /\ Monsters[enemy_id].gimmicks[idx].n > 0}

\* the call reached the enemy's action (the battle did not end before it)
ReachedEnemy(c) == HasStep(c, "enemy_acts") \/ HasStep(c, "enemy_stunned")

\* C6 as stated: against a boss, a repeating every_n_turns gimmick fires on
\* every turn the battle reaches whose turn_index is a multiple of n, and on
\* no other turn.
C6_FiresEveryNth ==
    (Monsters[enemy_id].ai = "boss" /\ ReachedEnemy(call)) =>
        \A idx \in Repeating :
            idx \in call.fired_now
                <=> call.ti % Monsters[enemy_id].gimmicks[idx].n = 0

\* C6 as amended: the gimmick fires on exactly the turns whose turn_index is a
\* multiple of n and on which the boss reaches its action and is not stunned.
C6_FiresEveryNthUnlessStunned ==
    (Monsters[enemy_id].ai = "boss" /\ call.kind # "none") =>
        \A idx \in Repeating :
            idx \in call.fired_now
                <=> /\ call.ti % Monsters[enemy_id].gimmicks[idx].n = 0
                    /\ HasStep(call, "enemy_acts")

\* the gimmick has fired on turn 3 and fires again on turn 6
C6_Witness ==
    /\ Monsters[enemy_id].ai = "boss"
    /\ call.ti = 6
    /\ 1 \in call.fired_now
    /\ hist.fired[1] = 2

\* C7: player_use_item with an item the player does not hold changes nothing
\* but the log: hp, effects, turn, turn_index and inventory stay as they are.
C7_MissingItemIsNoOp ==
    [][HasStep(call', "item_missing") =>
          UNCHANGED <<player_hp, enemy_hp, player_effects, enemy_effects,
                      turn, turn_index, inventory>>]_vars

\* C8: after the end-of-turn tick the player is checked first: with both
\* actors at 0 the enemy wins with exp 0 and no drops; with only the enemy at
\* 0 the player wins.
C8_PlayerCheckedFirst ==
    call.tick_php # NoHp =>
        /\ (call.tick_php <= 0 /\ call.tick_ehp <= 0) =>
              (call.winner = "enemy" /\ call.exp = 0 /\ call.drops = <<>>)
        /\ (call.tick_php > 0 /\ call.tick_ehp <= 0) => call.winner = "player"

\* both actors were alive before the tick and both are at 0 after it
C8_Witness ==
    /\ call.tick_php = 0
    /\ call.tick_ehp = 0
    /\ hist.n_results = 1
    /\ call.winner = "enemy"

\* C9: the hp of an actor never exceeds its current total max_hp.
C9_HpAtMostMax == player_hp <= PlayerMaxHp /\ enemy_hp <= EnemyMaxHp

\* C10: the hp of both actors is never negative.
C10_HpNonNegative == player_hp >= 0 /\ enemy_hp >= 0

\* a bleed tick brought an enemy that survived the player's action to 0
C10_Witness ==
    /\ call.tick_ehp = 0
    /\ call.after_player_ehp > 0
    /\ call.winner = "player"

\* C13: the result built at finish has the full expected exp when the player
\* won and exp 0 when the enemy won, and its drop list is non-empty only if
\* the player won and a drop table id is set
C13_ResultExpAndDrops ==
    call.winner # "none" =>
        /\ call.winner = "player" => call.exp = expected_exp
        /\ call.winner = "enemy" => call.exp = 0
        /\ call.drops # <<>> => call.winner = "player" /\ drop_table_id # "none"

\* the player beats an enemy with a drop table and gets exp and drops
C13_Witness ==
    /\ call.winner = "player"
    /\ call.exp = StageExp
    /\ call.drops # <<>>
    /\ drop_table_id # "none"

\* ------------------------------------------------------------------ skill damage
\* the physical and the magic component before the clamp, in tenths, as the
\* formula base + A*scale - D*scale gives them
RawPhysical10 ==
    Skills[args.skill_id].base_physical * 10
        + args.atk_stats.attack * Skills[args.skill_id].scale_attack10
        - args.def_stats.defense * Skills[args.skill_id].scale_attack10

RawMagic10 ==
    Skills[args.skill_id].base_magic * 10
        + args.atk_stats.magic * Skills[args.skill_id].scale_magic10
        - args.def_stats.magic_resist * Skills[args.skill_id].scale_magic10

\* C11: for every skill and all attacker and defender stats each component of
\* the damage is clamped at 0 before it is truncated (a component whose raw
\* value is 0 or below is 0) and the damage applied is >= 0
C11_DamageClamped ==
    ret.done /\ args.fn = "SkillDamage" =>
        /\ ret.value.phys_int >= 0
        /\ ret.value.magic_int >= 0
        /\ TotalDamage(ret.value) >= 0
        /\ RawPhysical10 <= 0 => ret.value.phys_int = 0
        /\ RawMagic10 <= 0 => ret.value.magic_int = 0

\* a defender whose mitigation exceeds the raw damage of the basic attack
C11_Witness ==
    /\ ret.done
    /\ args.fn = "SkillDamage"
    /\ args.skill_id = "__basic__"
    /\ args.def_stats.defense = 100
    /\ RawPhysical10 < 0
    /\ TotalDamage(ret.value) = 0

\* C12: the damage of a skill equals floor(max(0, base_physical + A.attack *
\* scale.attack - D.defense * scale.attack)) + floor(max(0, base_magic +
\* A.magic * scale.magic - D.magic_resist * scale.magic))
C12_DamageFormula ==
    ret.done /\ args.fn = "SkillDamage" =>
        TotalDamage(ret.value) = (Max2(0, RawPhysical10) \div 10)
                                    + (Max2(0, RawMagic10) \div 10)

\* ------------------------------------------------------------------ progression
\* C14: when gain_exp returns, the player's exp is strictly less than
\* exp_to_next(level)
C14_ExpBelowThreshold ==
    ret.done /\ args.fn = "gain_exp" => exp < 20 + level * 10

\* one call that crossed two thresholds and left exp over
C14_Witness ==
    /\ ret.done
    /\ args.fn = "gain_exp"
    /\ args.amount = 100
    /\ level = args.level + 2
    /\ exp > 0

RECURSIVE ThresholdSum(_, _)
\* the thresholds 20 + 10*l of the levels from..to-1
ThresholdSum(from, to) ==
    IF from >= to THEN 0 ELSE 20 + 10 * from + ThresholdSum(from + 1, to)

\* C15: one gain_exp call raises the level once per threshold crossed, grants
\* 4 stat points per level gained and keeps the leftover: old exp + amount is
\* the sum of the thresholds consumed plus the new exp
C15_LevelUpAccounting ==
    ret.done /\ args.fn = "gain_exp" =>
        /\ level >= args.level
        /\ ret.value = level - args.level
        /\ stat_points = args.stat_points + 4 * (level - args.level)
        /\ args.exp + args.amount = ThresholdSum(args.level, level) + exp
        /\ exp >= 0

\* level 1, exp 0, gaining 35: level 2, exp 5, 4 more stat points
C15_Witness ==
    /\ ret.done
    /\ args.fn = "gain_exp"
    /\ args.level = 1 /\ args.exp = 0 /\ args.amount = 35
    /\ level = 2 /\ exp = 5 /\ stat_points = args.stat_points + 4

\* ------------------------------------------------------------------ loot
\* C16: whatever the rng returns, a roll never yields the item of an entry
\* whose chance is 0.0 (checked on the tables in which no other entry drops
\* that item)
C16_ZeroChanceNeverDrops ==
    ret.done /\ args.fn = "roll_drop" =>
        \A i \in 1..Len(args.table) :
            (/\ args.table[i].chance10 = 0
             /\ \A j \in 1..Len(args.table) :
                    args.table[j].item = args.table[i].item
                        => args.table[j].chance10 = 0)
            => \A k \in 1..Len(ret.value) : ret.value[k].item # args.table[i].item

\* the k-th smallest member of a set of indices
Nth(J, k) == CHOOSE j \in J : Cardinality({x \in J : x < j}) = k - 1

\* results is what the entries with index in J yield, in table order
YieldOf(results, table, J) ==
    /\ Len(results) = Cardinality(J)
    /\ \A k \in 1..Len(results) :
          /\ results[k].item = table[Nth(J, k)].item
          /\ results[k].qty >= Min2(table[Nth(J, k)].min, table[Nth(J, k)].max)
          /\ results[k].qty <= Max2(table[Nth(J, k)].min, table[Nth(J, k)].max)

\* C17: whatever the rng returns, one roll yields every entry with chance 1.0
\* exactly once, no entry twice, in table order, with a quantity between
\* min(min, max) and max(min, max)
C17_CertainEntriesOnceInOrder ==
    ret.done /\ args.fn = "roll_drop" =>
        \E J \in SUBSET (1..Len(args.table)) :
            /\ \A i \in 1..Len(args.table) : args.table[i].chance10 = 10 => i \in J
            /\ YieldOf(ret.value, args.table, J)

\* the table [{item a, chance 1.0, min 2, max 2}] yields exactly [(a, 2)]
C17_Witness ==
    /\ ret.done
    /\ args.fn = "roll_drop"
    /\ args.table = <<DropEntry("a", 10, 2, 2)>>
    /\ ret.value = <<[item |-> "a", qty |-> 2]>>
\* ------------------------------------------------------------------ C18
\* how often a step is in the record of a call
Count(c, tag) == Cardinality({i \in 1..Len(c.steps) : c.steps[i] = tag})

\* the phase of the call a step belongs to: 1 the player's step, 2 the enemy's,
\* 3 and 4 the two ticks, 5 the increment; 0 for the steps inside a phase
Phase(tag) ==
    CASE tag \in {"player_skill", "unknown_skill", "player_stunned", "item_missing",
                  "item_used", "item_failed"} -> 1
      [] tag \in {"enemy_acts", "enemy_stunned", "enemy_skill"} -> 2
      [] tag = "tick_player" -> 3
      [] tag = "tick_enemy" -> 4
      [] tag = "turn_inc" -> 5
      [] OTHER -> 0

RECURSIVE BleedTotal(_, _)
\* the sum of the powers of the bleeds among effects i.. of a list, whatever
\* their durations
BleedTotal(effs, i) ==
    IF i > Len(effs) THEN 0
    ELSE (IF effs[i].kind = "bleed" THEN TruncDiv(effs[i].power10, 10) ELSE 0)
         + BleedTotal(effs, i + 1)

RECURSIVE Aged(_, _)
\* effects i.. of a list one turn older: every duration one less, those at 0
\* or below dropped, the order kept
Aged(effs, i) ==
    IF i > Len(effs) THEN <<>>
    ELSE (IF effs[i].duration - 1 > 0
          THEN <<[effs[i] EXCEPT !.duration = @ - 1]>> ELSE <<>>)
         \o Aged(effs, i + 1)

\* C18: a player-action call that reaches the end of the turn ran, in this
\* order and once each, the player's step (only the lost turn when stunned),
\* the enemy's step (no skill when stunned), the tick of the player's effects,
\* the tick of the enemy's effects and the increment of turn and turn_index
\* by 1; each tick took the power of every bleed the actor held, the ones in
\* their last turn included, and when the battle goes on every effect of both
\* actors, stunned or not, is one turn older.
C18_TurnOrderAndTick ==
    call.pre_tick.ran =>
        /\ \A i, j \in 1..Len(call.steps) :
              (i < j /\ Phase(call.steps[i]) > 0 /\ Phase(call.steps[j]) > 0)
                  => Phase(call.steps[i]) <= Phase(call.steps[j])
        /\ \A tag \in {"tick_player", "tick_enemy", "turn_inc"} : Count(call, tag) = 1
        /\ \A tag \in {"player_skill", "unknown_skill", "player_stunned", "item_missing",
                        "item_used", "enemy_skill"} : Count(call, tag) <= 1
        /\ Count(call, "player_skill") + Count(call, "unknown_skill")
              + Count(call, "player_stunned") + Count(call, "item_missing")
              + Count(call, "item_used") + Count(call, "item_failed") \in {1, 2}
        /\ Count(call, "player_stunned") = 1 =>
              \A i \in 1..Len(call.steps) :
                  Phase(call.steps[i]) = 1 => call.steps[i] = "player_stunned"
        /\ Count(call, "enemy_acts") + Count(call, "enemy_stunned") = 1
        /\ Count(call, "enemy_stunned") = 1 => Count(call, "enemy_skill") = 0
        /\ turn_index = call.ti + 1
        /\ turn = call.ti + 1
        /\ call.tick_php
              = Max2(0, call.pre_tick.php - BleedTotal(call.pre_tick.peff, 1))
        /\ call.tick_ehp
              = Max2(0, call.pre_tick.ehp - BleedTotal(call.pre_tick.eeff, 1))
        /\ call.winner = "none" =>
              /\ player_effects = Aged(call.pre_tick.peff, 1)
              /\ enemy_effects = Aged(call.pre_tick.eeff, 1)
              /\ player_hp = call.tick_php
              /\ enemy_hp = call.tick_ehp

\* a stunned player loses the turn while holding a bleed in its last turn: the
\* bleed takes its power and is gone, the stun is one turn older
C18_Witness ==
    /\ call.pre_tick.ran
    /\ call.winner = "none"
    /\ HasStep(call, "player_stunned")
    /\ HasStep(call, "enemy_acts")
    /\ \E i \in 1..Len(call.pre_tick.peff) :
          /\ call.pre_tick.peff[i].kind = "bleed"
          /\ call.pre_tick.peff[i].duration = 1
          /\ call.pre_tick.peff[i].power10 > 0
    /\ \E i \in 1..Len(call.pre_tick.peff) : call.pre_tick.peff[i].kind = "stun"
    /\ player_hp < call.pre_tick.php
    /\ player_hp > 0
    /\ ~has_effect(player_effects, "bleed")
    /\ Len(player_effects) < Len(call.pre_tick.peff)

\* ------------------------------------------------------------------ C19
\* the kinds apply_effect keeps as instances
TimedKinds == {"buff_stats", "debuff_stats", "bleed", "stun"}

\* C19: on a battle that has returned no result, a player call naming an
\* unknown skill id deals no damage and adds no effect (the enemy is as it was
\* when the enemy's step is over, and so is the player when the enemy was
\* stunned), costs no item, and the turn goes on: the enemy's step runs, and
\* the call ends the battle only through the enemy's skill or the tick, else
\* the turn index grows by 1.  An effect spec of an unknown kind adds no
\* instance and changes no hp: the effects both actors hold before the tick
\* are those they held plus one per spec of a known timed kind applied in the
\* call, all of known kinds, and when the player's step did nothing (the only
\* skill with such a spec deals no damage and applies one debuff first) the
\* hp of both are unchanged and the player holds exactly that debuff more.
C19_UnknownIsIgnored ==
    [][/\ (HasStep(call', "unknown_skill") /\ hist.n_results = 0) =>
            /\ ~HasStep(call', "player_skill")
            /\ call'.after_player_ehp = NoHp
            /\ ReachedEnemy(call')
            /\ inventory' = inventory
            /\ call'.pre_tick.ran =>
                  /\ call'.pre_tick.ehp = enemy_hp
                  /\ call'.pre_tick.eeff = enemy_effects
                  /\ HasStep(call', "enemy_stunned") =>
                        /\ call'.pre_tick.php = player_hp
                        /\ call'.pre_tick.peff = player_effects
                  /\ turn_index' = turn_index + 1
            /\ ~call'.pre_tick.ran =>
                  (call'.winner = "enemy" /\ HasStep(call', "enemy_skill"))
       /\ (HasStep(call', "unknown_effect") /\ call'.pre_tick.ran) =>
            /\ \A i \in 1..Len(call'.pre_tick.peff) :
                  call'.pre_tick.peff[i].kind \in TimedKinds
            /\ \A i \in 1..Len(call'.pre_tick.eeff) :
                  call'.pre_tick.eeff[i].kind \in TimedKinds
            /\ ~HasStep(call', "item_used") =>
                  Len(call'.pre_tick.peff) + Len(call'.pre_tick.eeff)
                    = Len(player_effects) + Len(enemy_effects)
                      + Count(call', "buff_stats") + Count(call', "debuff_stats")
                      + Count(call', "bleed") + Count(call', "stun")
            /\ (\E tag \in {"unknown_skill", "item_missing", "player_stunned"} :
                    HasStep(call', tag)) =>
                  /\ call'.pre_tick.php = player_hp
                  /\ call'.pre_tick.ehp = enemy_hp
                  /\ call'.pre_tick.eeff = enemy_effects
                  /\ Len(call'.pre_tick.peff) = Len(player_effects) + 1
                  /\ SubSeq(call'.pre_tick.peff, 1, Len(player_effects))
                        = player_effects
                  /\ call'.pre_tick.peff[Len(call'.pre_tick.peff)].kind
                        = "debuff_stats"]_vars

\* the first call of a battle names an unknown skill and the enemy answers with
\* a skill that carries a spec of an unknown kind; the battle goes on
C19_Witness ==
    /\ HasStep(call, "unknown_skill")
    /\ HasStep(call, "unknown_effect")
    /\ HasStep(call, "debuff_stats")
    /\ call.pre_tick.ran
    /\ call.winner = "none"
    /\ hist.n_results = 0
    /\ call.ti = 1
    /\ turn_index = 2
    /\ Len(player_effects) = 1
    /\ player_hp = PlayerTotalStats(player_id, equipment, allocated_stats, <<>>).max_hp

\* ------------------------------------------------------------------ C20
\* C20: an equip call (items.equip_item or GameStateManager.equip) with an
\* item id that is unknown, is not of type equipment or is not held, and an
\* unequip call (items.unequip_slot or GameStateManager.unequip) on an invalid
\* or empty slot, returns failure and leaves the inventory and the equipment
\* as they were when the call was made.
C20_FailedEquipChangesNothing ==
    LET must_fail ==
            IF args.fn \in {"equip_item", "equip"}
            THEN \/ args.arg \notin ItemIds
                 \/ Items[args.arg].type # "equipment"
                 \/ InvGet(args.inventory, args.arg) <= 0
            ELSE \/ args.arg \notin {"weapon", "armor", "accessory"}
                 \/ args.equipment[args.arg] = NoItem
    IN  (args.fn # "none" /\ must_fail) =>
            /\ ret = Returned(FALSE)
            /\ inventory = args.inventory
            /\ equipment = args.equipment

\* a player whose weapon slot is filled and who holds a potion tries to equip
\* the potion
C20_Witness ==
    /\ args.fn = "equip_item"
    /\ args.arg = "potion_small"
    /\ InvGet(args.inventory, "potion_small") = 1
    /\ args.equipment["weapon"] = "sword"
    /\ ret = Returned(FALSE)
    /\ inventory = args.inventory
    /\ equipment["weapon"] = "sword"

C22_InstancesCoexist ==
    /\ (/\ args.fn = "apply_effect"
        /\ args.spec.type \in TimedKinds
        /\ ret.value # "effect_failed") =>
            /\ Len(player_effects) = Len(args.effects) + 1
            /\ SubSeq(player_effects, 1, Len(args.effects)) = args.effects
            /\ player_effects[Len(player_effects)]
                  = [kind |-> args.spec.type, duration |-> args.spec.duration,
                     power10 |-> args.spec.power10, stats_delta |-> args.spec.stats]
            /\ player_hp = args.hp
    /\ args.fn = "tick_end_of_turn" =>
            /\ player_hp = Max2(0, args.hp - BleedTotal(args.effects, 1))
            /\ player_effects = Aged(args.effects, 1)

\* two bleeds of different powers and durations were held at a tick: both
\* took their power and only the longer one is left
C22_Witness ==
    /\ args.fn = "tick_end_of_turn"
    /\ Len(args.effects) = 2
    /\ args.effects[1].kind = "bleed" /\ args.effects[1].duration = 1
    /\ args.effects[1].power10 = 20
    /\ args.effects[2].kind = "bleed" /\ args.effects[2].duration = 2
    /\ args.effects[2].power10 = 30
    /\ player_hp = args.hp - 5
    /\ player_hp > 0
    /\ Len(player_effects) = 1
    /\ player_effects[1].power10 = 30 /\ player_effects[1].duration = 1

\* ------------------------------------------------------------------ C23
RECURSIVE SumOf(_, _)
\* the sum of the values of f over the finite set S
SumOf(f, S) ==
    IF S = {} THEN 0
    ELSE LET x == CHOOSE y \in S : TRUE IN f[x] + SumOf(f, S \ {x})

RECURSIVE ProductOf(_, _)
\* the product of the values of f over the finite set S
ProductOf(f, S) ==
    IF S = {} THEN 1
    ELSE LET x == CHOOSE y \in S : TRUE IN f[x] * ProductOf(f, S \ {x})

\* C23: every field of a player's total stats is the base stat plus the
\* allocated points, the stats of the equipped items and the deltas of the
\* active buffs and debuffs, and that sum times the product of the
\* stat_multiplier specials the equipped items carry for the field (those <= 0
\* left out), truncated to an integer: the multipliers scale the sum, not the
\* base.
C23_AddThenScale ==
    (args.fn = "total_stats" /\ ret.done) =>
        \A key \in StatKeys :
            LET held == {s \in {"weapon", "armor", "accessory"} :
                            equipment[s] \in ItemIds}
                added == Players[player_id].base_stats[key]
                         + allocated_stats[key]
                         + SumOf([s \in held |-> Items[equipment[s]].stats[key]], held)
                         + SumOf([i \in DOMAIN player_effects |->
                                    IF player_effects[i].kind
                                          \in {"buff_stats", "debuff_stats"}
                                       /\ player_effects[i].duration > 0
                                    THEN player_effects[i].stats_delta[key] ELSE 0],
                                 DOMAIN player_effects)
                tenths == [s \in held |->
                             IF /\ Items[equipment[s]].special.type = "stat_multiplier"
                                /\ Items[equipment[s]].special.stat = key
                                /\ Items[equipment[s]].special.mult10 > 0
                             THEN Items[equipment[s]].special.mult10 ELSE 10]
            IN  ret.value[key] * ProductOf([s \in held |-> 10], held)
                    <= added * ProductOf(tenths, held)
                /\ added * ProductOf(tenths, held)
                    < (ret.value[key] + 1) * ProductOf([s \in held |-> 10], held)

\* a buffed player with allocated points wears two items that multiply max_hp
\* (1.5 and 2.0) and a weapon whose attack multiplier is 0: max_hp is
\* (20 + 3 + 2 + 5) * 3 = 90 and attack is the plain sum 15 + 2 + 3 + 1
C23_Witness ==
    /\ args.fn = "total_stats"
    /\ ret.done
    /\ player_id = "char_0"
    /\ equipment = [weapon |-> "cursed_blade", armor |-> "helm",
                    accessory |-> "amulet"]
    /\ allocated_stats = Stats(2, 0, 0, 0, 3)
    /\ Len(player_effects) = 1
    /\ player_effects[1].kind = "buff_stats"
    /\ ret.value.max_hp = 90
    /\ ret.value.attack = 21

\* ------------------------------------------------------------------ C24
\* C24: when the player uses a skill carrying lifesteal specs, no instance of
\* kind lifesteal is held by either actor afterwards (the player's effects are
\* those held before), and the player's hp after the skill, before a finish
\* restores it, is min(total max_hp, hp + floor(total damage * the sum of the
\* lifesteal powers)).
C24_LifestealSummed ==
    [][(/\ call'.kind \in SkillIds
        /\ \E i \in DOMAIN Skills[call'.kind].apply_effect :
              Skills[call'.kind].apply_effect[i].type = "lifesteal") =>
          LET specs == Skills[call'.kind].apply_effect
              tenths == SumOf([i \in DOMAIN specs |->
                                 IF specs[i].type = "lifesteal"
                                 THEN specs[i].power10 ELSE 0], DOMAIN specs)
              total_damage ==
                  TotalDamage(SkillDamage(Skills[call'.kind],
                      PlayerTotalStats(player_id, equipment, allocated_stats,
                                       player_effects),
                      EnemyTotalStats(enemy_id, enemy_effects)))
              max_hp == PlayerTotalStats(player_id, equipment, allocated_stats,
                                         player_effects).max_hp
              after == IF call'.winner # "none" THEN call'.fin_php ELSE player_hp'
          IN  /\ after = Min2(max_hp, player_hp + ((total_damage * tenths) \div 10))
              /\ \A i \in DOMAIN player_effects' :
                    player_effects'[i].kind # "lifesteal"
              /\ \A i \in DOMAIN enemy_effects' :
                    enemy_effects'[i].kind # "lifesteal"
              /\ call'.winner = "none" => player_effects' = player_effects]_vars

\* the mage at 10 hp drains the golem at 24: the damage is 13, the two
\* lifesteal specs (0.2 and 0.3) give floor(13 * 0.5) = 6 hp, the golem lives
\* and the mage holds no effect
C24_Witness ==
    /\ call.kind = "drain"
    /\ HasStep(call, "lifesteal")
    /\ call.winner = "none"
    /\ enemy_id = "golem"
    /\ enemy_hp = 11
    /\ player_hp = 16
    /\ player_effects = <<>>

\* ------------------------------------------------------------------ C25
\* C25: after clear_stage(zone, s) on a zone that was unlocked, with
\* 1 <= s <= 4, stage s + 1 of the zone is unlocked, whatever the level of the
\* zone was before.
C25_NextStageUnlocked ==
    (/\ args.fn = "clear_stage"
     /\ InList(args.zone, args.before.unlocked_zones)
     /\ args.stage \in 1..4) =>
        is_stage_unlocked(dungeon_progress, args.zone, args.stage + 1)

\* stage 4 of zone 2 is cleared while the zone is unlocked at level 1
C25_Witness ==
    /\ args.fn = "clear_stage"
    /\ args.zone = "2"
    /\ args.stage = 4
    /\ InList("2", args.before.unlocked_zones)
    /\ args.before.unlocked_stage_by_zone["2"] = 1
    /\ dungeon_progress.unlocked_stage_by_zone["2"] = 5

\* ------------------------------------------------------------------ C26
\* C26: after stage 5 of zone z is cleared with z + 1 <= 10, zone z + 1 and
\* its stage 1 are unlocked; and no zone numbered above 10 is ever in
\* unlocked_zones.
C26_NextZoneUnlockedUpToTen ==
    /\ (/\ args.fn = "clear_stage"
        /\ args.stage = 5
        /\ ZoneInt(args.zone) + 1 <= 10) =>
           is_stage_unlocked(dungeon_progress, ZoneStr(ZoneInt(args.zone) + 1), 1)
    /\ \A i \in DOMAIN dungeon_progress.unlocked_zones :
          ZoneInt(dungeon_progress.unlocked_zones[i]) <= 10

\* zone 10 is unlocked and its stage 5 is cleared: no zone is added
C26_Witness ==
    /\ args.fn = "clear_stage"
    /\ args.zone = "10"
    /\ args.stage = 5
    /\ InList("10", args.before.unlocked_zones)
    /\ InList("3", args.before.unlocked_zones)
    /\ dungeon_progress.unlocked_zones = args.before.unlocked_zones

\* ------------------------------------------------------------------ C27
\* C27: after a successful load the skill list of every player, monster and
\* boss of the catalog is non-empty and holds only ids of the skill catalog.
C27_ActorSkillsKnown ==
    (args.fn = "load_all" /\ ret.done /\ ret.value.ok) =>
        LET c == ret.value.value
        IN  \A actors \in {c.players, c.monsters, c.bosses} :
              \A id \in DOMAIN actors :
                  /\ actors[id].skills # <<>>
                  /\ \A i \in DOMAIN actors[id].skills :
                        actors[id].skills[i] \in DOMAIN c.skills

\* ------------------------------------------------------------------ C28
\* C28: a load whose drop tables name an item id that is not in the item
\* catalog ends with an error; after a successful load every item id of
\* every drop table, the only ids a drop list is made of, is in the item
\* catalog.
C28_DanglingDropAborts ==
    (args.fn = "load_all" /\ ret.done) =>
        /\ (\E name \in DOMAIN args.drop_tables :
               \E i \in DOMAIN args.drop_tables[name].items :
                   args.drop_tables[name].items[i] \notin DOMAIN args.items)
              => ~ret.value.ok
        /\ ret.value.ok =>
              \A name \in DOMAIN ret.value.value.drop_tables :
                  \A i \in DOMAIN ret.value.value.drop_tables[name].items :
                      ret.value.value.drop_tables[name].items[i]
                          \in DOMAIN ret.value.value.items

\* everything but the second entry of the drop table is in order: the load
\* stops at the drop tables
C28_Witness ==
    /\ args.fn = "load_all"
    /\ ret.done
    /\ args.drop_tables["t"].items = <<"potion", "phantom">>
    /\ DOMAIN args.items = {"potion"}
    /\ ret.value = Raised("ValueError: items.json drop_table")

\* ------------------------------------------------------------------ C29
\* C29: a lookup of a skill, item or monster id that is not in the catalog
\* raises no error.
C29_LookupNeverRaises ==
    (/\ args.fn \in LookupFns \ {"DataStore.get_player"}
     /\ ret.done
     /\ args.id \notin CatalogIds(args.fn)) => ret.value.ok

\* ------------------------------------------------------------------ C30
\* C30: when a call has switched the active character, the player's hp is
\* its total max_hp, with equipment and allocated points, whatever hp was
\* saved for the character.
C30_SwitchRestoresHp ==
    (/\ args.fn \in {"switch_player", "select_player"}
     /\ ret.done
     /\ ret.value = "switched") =>
        player_hp = PlayerTotalStats(player_id, equipment, allocated_stats,
                                     <<>>).max_hp

\* ------------------------------------------------------------------ C31
\* C31: a call that returned no result leaves both actors with hp > 0; a
\* result with winner player was made with the enemy's hp <= 0, and a result
\* with winner enemy with the player's hp <= 0 before the restore.
C31_ResultMatchesHp ==
    /\ call.winner = "none" => (player_hp > 0 /\ enemy_hp > 0)
    /\ call.winner = "player" =>
          (call.fin_ehp # NoHp /\ call.fin_ehp <= 0 /\ enemy_hp <= 0)
    /\ call.winner = "enemy" => (call.fin_php # NoHp /\ call.fin_php <= 0)

\* the enemy bleeds to 0 in the end-of-turn tick while the player lives: the
\* call returns the player's win
C31_Witness ==
    /\ call.winner = "player"
    /\ call.pre_tick.ran
    /\ call.pre_tick.ehp > 0
    /\ call.tick_ehp = 0
    /\ call.fin_ehp = 0
    /\ call.fin_php > 0

\* ------------------------------------------------------------------ C32
\* C32: apply_stat_points leaves stat_points + the sum of allocated_stats as
\* it was, for every spend mapping, and stat_points is not negative after it.
C32_PointsConserved ==
    LET Total(sp, alloc) == sp + alloc.attack + alloc.magic + alloc.defense
                               + alloc.magic_resist + alloc.max_hp
    IN  args.fn = "apply_stat_points" =>
            /\ Total(stat_points, allocated_stats)
                   = Total(args.stat_points, args.allocated_stats)
            /\ stat_points >= 0

\* ------------------------------------------------------------------ C33
\* the quantities result.drop_details holds for the item
DropQty(drop_list, item_id) ==
    SumOf([i \in 1..Len(drop_list) |->
              IF drop_list[i].item = item_id THEN drop_list[i].qty ELSE 0],
          1..Len(drop_list))

\* C33: after finish_battle on a player win, the count of every item id in
\* the inventory has grown by exactly the sum of the quantities the result's
\* drop list holds for that id, a rolled quantity of 0 included
C33_DropsAddedExactly ==
    (args.fn = "finish_battle" /\ call.winner = "player") =>
        \A id \in ItemIds :
            InvGet(inventory, id) = InvGet(args.inventory, id) + DropQty(call.drops, id)

\* ------------------------------------------------------------------ C34
\* the copies of the item the player owns: held in the inventory or worn
Owned(inv, equip, item_id) ==
    InvGet(inv, item_id) + Cardinality({s \in ValidSlots : equip[s] = item_id})

\* C34: every equip_item and unequip_slot call, successful or not, leaves
\* for every item id the inventory count plus the number of slots holding
\* it as it was; and from every state reached, equipping an item into an
\* empty slot and then unequipping that slot gives back the same inventory
\* and equipment
C34_EquipConservesItems ==
    /\ args.fn \in {"equip_item", "unequip_slot"} =>
          \A id \in ItemIds \cup {UnknownItem} :
              Owned(inventory, equipment, id) = Owned(args.inventory, args.equipment, id)
    /\ \A item_id \in EquipArgs :
          LET r == equip_item(inventory, equipment, item_id)
          IN  (r.ok /\ equipment[Items[item_id].slot] = NoItem) =>
                  LET u == unequip_slot(r.inv, r.equip, Items[item_id].slot)
                  IN  u.ok /\ u.inv = inventory /\ u.equip = equipment

\* an equip over an occupied slot has just succeeded, and an unequip has
\* just given back the item an equip into the empty slot had taken
C34_Witness ==
    /\ args.fn = "equip_item"
    /\ ret.value = TRUE
    /\ args.equipment.accessory # NoItem
    /\ equipment.accessory # args.equipment.accessory
    /\ InvGet(inventory, args.equipment.accessory) = 1

\* ------------------------------------------------------------------ C35
\* C35: a healing step never lowers the hp of its target; for the lifesteal
\* of a skill the player uses, the player's hp after the skill, before a
\* finish restores it, is at least the hp before the skill.
C35_HealingNeverLowersHp ==
    [][HasStep(call', "lifesteal") =>
          (IF call'.winner # "none" THEN call'.fin_php ELSE player_hp') >= player_hp]_vars

\* ------------------------------------------------------------------ C36
\* C36: player_use_item takes exactly one of the used item out of the
\* inventory when the consumable was applied (the key goes when the count
\* reaches 0) and leaves the whole inventory as it was when the use failed
\* (item not held, unknown item, no consumable, player stunned); no count is
\* ever negative.
C36_ItemUseCountsOne ==
    /\ args.fn = "player_use_item" =>
          IF HasStep(call, "item_used")
          THEN /\ InvGet(args.inventory, args.item_id) >= 1
               /\ DOMAIN inventory =
                     IF args.inventory[args.item_id] = 1
                     THEN DOMAIN args.inventory \ {args.item_id}
                     ELSE DOMAIN args.inventory
               /\ \A id \in DOMAIN inventory :
                     inventory[id] = IF id = args.item_id THEN args.inventory[id] - 1
                                     ELSE args.inventory[id]
          ELSE inventory = args.inventory
    /\ \A id \in DOMAIN inventory : inventory[id] >= 0

\* one of two potions was used
C36_Witness ==
    /\ args.fn = "player_use_item"
    /\ args.item_id = "potion_small"
    /\ HasStep(call, "item_used")
    /\ args.inventory["potion_small"] = 2
    /\ inventory["potion_small"] = 1

\* ------------------------------------------------------------------ C37
\* C37: no call of the battle engine changes the player's level, exp,
\* stat_points, equipment or allocated stats, and finish_battle after a lost
\* battle leaves all of them, the inventory and the dungeon progress as they
\* were.
C37_BattleKeepsProgress ==
    [][/\ args'.fn = "none" =>
             UNCHANGED <<level, exp, stat_points, equipment, allocated_stats>>
       /\ (args'.fn = "finish_battle" /\ call.winner = "enemy") =>
             UNCHANGED <<level, exp, stat_points, equipment, allocated_stats,
                         inventory, dungeon_progress>>]_vars

\* finish_battle has run after a battle the player lost having used the potion
C37_Witness ==
    /\ args.fn = "finish_battle"
    /\ call.winner = "enemy"
    /\ args.last_zone_stage # NoStage
    /\ "potion_small" \notin DOMAIN inventory
    /\ player_id = "char_0"
    /\ player_hp = PlayerTotalStats(player_id, equipment, allocated_stats, <<>>).max_hp

\* ------------------------------------------------------------------ C38
\* C38: a stage that is unlocked stays unlocked after every clear_stage
\* call, and clearing stage 5 of a zone whose next zone is unlocked leaves
\* the level of the next zone as it was.
C38_UnlockingMonotonic ==
    [][/\ \A i \in DOMAIN ZoneNames, stage \in 0..MaxStage + 1 :
             is_stage_unlocked(dungeon_progress, ZoneNames[i], stage) =>
                 is_stage_unlocked(dungeon_progress', ZoneNames[i], stage)
       /\ (args'.fn = "clear_stage" /\ args'.stage >= MaxStage) =>
             LET next_zone == ZoneStr(ZoneInt(args'.zone) + 1)
             IN  InList(next_zone, dungeon_progress.unlocked_zones) =>
                     /\ InList(next_zone, dungeon_progress'.unlocked_zones)
                     /\ dungeon_progress'.unlocked_stage_by_zone[next_zone]
                           = dungeon_progress.unlocked_stage_by_zone[next_zone]]_vars

\* stage 5 of zone 1 is cleared again after stage 4 of zone 2 was cleared
C38_Witness ==
    /\ args.fn = "clear_stage"
    /\ args.zone = "1"
    /\ args.stage = 5
    /\ InList("2", args.before.unlocked_zones)
    /\ args.before.unlocked_stage_by_zone["2"] = 5
    /\ is_stage_unlocked(dungeon_progress, "2", 5)

\* ------------------------------------------------------------------ C39
\* C39: gain_exp returns for every level >= 1 and every amount; each pass of
\* its loop subtracts a positive threshold from exp.
C39_GainExpTerminates ==
    /\ <>ret.done
    /\ [][level' # level => (exp_to_next(level) > 0 /\ exp' < exp)]_vars

\* a call that has returned after five passes of the loop
C39_Witness ==
    /\ args.fn = "gain_exp"
    /\ args.pc = "done"
    /\ args.amount = 400
    /\ level >= args.level + 5
    /\ exp < exp_to_next(level)

====
